---- MODULE Spec2Model ----
(***************************************************************************)
(* Model of the visa-eligibility evaluation backend: document parsing,    *)
(* the oracle-backed and deterministic scoring paths, and the             *)
(* createEvaluation request handler with its persistence steps.           *)
(*                                                                         *)
(* Numbers that JavaScript keeps as doubles are modelled as exact          *)
(* rationals <<numerator, denominator>>; the pair <<0, 0>> stands for NaN. *)
(***************************************************************************)
EXTENDS Integers, Sequences, FiniteSets, TLC

(***************************************************************************)
(* Bounds of the model                                                     *)
(***************************************************************************)
MaxYears == 16

MaxFiles == 2

MaxRuns == 1

(***************************************************************************)
(* JavaScript number semantics on exact rationals                          *)
(***************************************************************************)
\* Each operation takes its operands as values of Rat, so that an operand is
\* evaluated once however often the operation reads it.
Rat == Int \X Int

Abs(n) == IF n < 0 THEN -n ELSE n

GCD[a \in Nat, b \in Nat] == IF b = 0 THEN a ELSE GCD[b, a % b]

NaN == <<0, 0>>

isNaN(r) == r[2] = 0

Norm(r) ==
  LET norm[q \in Rat] ==
        IF q[2] = 0 THEN NaN
        ELSE LET s == IF q[2] < 0 THEN -1 ELSE 1
                 g == GCD[Abs(q[1]), Abs(q[2])]
             IN  <<(s * q[1]) \div g, (s * q[2]) \div g>>
  IN  norm[r]

Num(n) == <<n, 1>>

Add(a, b) ==
  LET sum[x \in Rat, y \in Rat] ==
        IF isNaN(x) \/ isNaN(y) THEN NaN
        ELSE Norm(<<x[1] * y[2] + y[1] * x[2], x[2] * y[2]>>)
  IN  sum[a, b]

Mul(a, b) ==
  LET product[x \in Rat, y \in Rat] ==
        IF isNaN(x) \/ isNaN(y) THEN NaN
        ELSE Norm(<<x[1] * y[1], x[2] * y[2]>>)
  IN  product[a, b]

Div(a, b) ==
  LET quotient[x \in Rat, y \in Rat] ==
        IF isNaN(x) \/ isNaN(y) \/ y[1] = 0 THEN NaN
        ELSE Norm(<<x[1] * y[2], x[2] * y[1]>>)
  IN  quotient[a, b]

\* a >= b, a < b as JavaScript compares them: false when either side is NaN
Ge(a, b) ==
  LET ge[x \in Rat, y \in Rat] ==
        ~isNaN(x) /\ ~isNaN(y) /\ x[1] * y[2] >= y[1] * x[2]
  IN  ge[a, b]

Lt(a, b) ==
  LET lt[x \in Rat, y \in Rat] ==
        ~isNaN(x) /\ ~isNaN(y) /\ x[1] * y[2] < y[1] * x[2]
  IN  lt[a, b]

MathMin(a, b) ==
  LET min[x \in Rat, y \in Rat] ==
        IF isNaN(x) \/ isNaN(y) THEN NaN
        ELSE IF Lt(y, x) THEN y ELSE x
  IN  min[a, b]

MathMax(a, b) ==
  LET max[x \in Rat, y \in Rat] ==
        IF isNaN(x) \/ isNaN(y) THEN NaN
        ELSE IF Lt(x, y) THEN y ELSE x
  IN  max[a, b]

\* Math.round: nearest integer, halves towards +infinity
MathRound(r) ==
  LET round[x \in Rat] ==
        IF isNaN(x) THEN NaN
        ELSE Num((2 * x[1] + x[2]) \div (2 * x[2]))
  IN  round[r]

IsInteger(r) == r[2] = 1

\* truthiness of a number: 0 and NaN are falsy
Truthy(r) == ~isNaN(r) /\ r[1] # 0

(***************************************************************************)
(* Strings: a small vocabulary with toLowerCase, includes and split        *)
(***************************************************************************)
Undefined == "undefined"

SpecStrings ==
  {"technology", "Technology", "tech", "information technology",
   "general", "arts", "science"}

toLowerCase(s) == IF s = "Technology" THEN "technology" ELSE s

\* a.includes(b) on lower-case vocabulary strings
includes(a, b) ==
  \/ a = b
  \/ a = "technology" /\ b = "tech"
  \/ a = "information technology" /\ b \in {"technology", "tech", "information"}

\* s.split(/[\s,]+/)
split(s) == IF s = "information technology" THEN {"information", "technology"}
            ELSE {s}

(***************************************************************************)
(* Reference data: visa type documents as VisaType.findOne returns them    *)
(***************************************************************************)
EducationLevels == {"high_school", "bachelor", "master", "phd"}

CefrLevels == <<"a1", "a2", "b1", "b2", "c1", "c2">>

Weights(e, d, s, l, q) ==
  [experience |-> e, education |-> d, specialization |-> s,
   language |-> l, documentQuality |-> q]

Dimensions ==
  {"experience", "education", "specialization", "language", "documentQuality"}

VisaType(id, name, minYears, minEdu, specs, lang, w, cap, link) ==
  [visaTypeId |-> id, visaName |-> name,
   eligibilityCriteria |->
     [minExperienceYears |-> minYears, minEducationLevel |-> minEdu,
      specializations |-> specs, languageRequirement |-> lang],
   scoringWeights |-> w, maxScoreCap |-> cap, officialLink |-> link]

\* three seeded documents, two documents at the edges of the schema's ranges
\* (maxScoreCap 0, minExperienceYears 0), and one stored without a visaName
VisaTypes ==
  {VisaType("o1a", "O-1A Visa", 5, "bachelor", <<"science", "technology">>,
            "b2", Weights(30, 25, 20, 15, 10), 85, "link"),
   VisaType("h1b", "H-1B Visa", 2, "bachelor", <<"technology", "science">>,
            "b1", Weights(25, 30, 25, 10, 10), 80, "link"),
   VisaType("talent_passport", "Talent Passport", 5, "master",
            <<"technology", "arts">>, "a2", Weights(28, 30, 22, 12, 8), 84,
            "link"),
   VisaType("express_entry", "Express Entry", 1, "phd", <<"Technology">>,
            "c1", Weights(30, 28, 17, 18, 7), 88, Undefined),
   VisaType("o1_zero_cap", "O-1B Visa", 0, "high_school", <<"arts">>,
            "a1", Weights(0, 30, 30, 40, 0), 0, "link"),
   VisaType("legacy", Undefined, 3, "bachelor", <<"technology">>,
            "b1", Weights(20, 20, 20, 20, 20), 90, "link"),
   VisaType("skilled_worker", "Skilled Worker Visa", 5, "bachelor",
            <<"technology">>, "b1", Weights(30, 25, 20, 15, 10), 85, "link")}

ValidVisaType(v) ==
  /\ v.visaName # Undefined
  /\ v.scoringWeights.experience + v.scoringWeights.education
       + v.scoringWeights.specialization + v.scoringWeights.language
       + v.scoringWeights.documentQuality = 100
  /\ v.maxScoreCap \in 0..100

\* visaName.includes('O-1A') || visaName.includes('O-1')
NameIncludesO1(name) == name \in {"O-1A Visa", "O-1B Visa"}

indexOf(seq, x) ==
  IF \E i \in DOMAIN seq : seq[i] = x
  THEN (CHOOSE i \in DOMAIN seq : seq[i] = x /\ \A j \in 1..(i - 1) : seq[j] # x) - 1
  ELSE -1

Range(seq) == {seq[i] : i \in DOMAIN seq}

(***************************************************************************)
(* scoringService: the rule-based scorer                                   *)
(***************************************************************************)
calculateExperienceScore(years, minRequired) ==
  IF years < minRequired
  THEN MathRound(Mul(Div(Num(years), Num(minRequired)), Num(50)))
  ELSE IF years >= minRequired + 10
       THEN Num(100)
       ELSE MathRound(Add(Num(50), Mul(Div(Num(years - minRequired), Num(10)), Num(50))))

levels ==
  [high_school |-> 40, bachelor |-> 65, master |-> 85, phd |-> 100]

calculateEducationScore(level, minRequired) ==
  LET userScore == IF level \in DOMAIN levels THEN levels[level] ELSE 0
      requiredScore == IF minRequired \in DOMAIN levels THEN levels[minRequired] ELSE 0
  IN  IF userScore < requiredScore
      THEN MathRound(Mul(Div(Num(userScore), Num(requiredScore)), Num(50)))
      ELSE Num(userScore)

calculateSpecializationScore(userSpec, requiredSpecs) ==
  IF Len(requiredSpecs) = 0 THEN Num(80)
  ELSE IF toLowerCase(userSpec) \in Range(requiredSpecs) THEN Num(100)
  ELSE IF \E req \in Range(requiredSpecs) :
            \E keyword \in split(toLowerCase(userSpec)) :
               includes(toLowerCase(req), keyword)
       THEN Num(75)
       ELSE Num(50)

calculateLanguageScore(proficiency, requirement) ==
  LET userLevel == indexOf(CefrLevels, proficiency)
      requiredLevel == indexOf(CefrLevels, requirement)
  IN  IF userLevel = -1 \/ requiredLevel = -1 THEN Num(60)
      ELSE IF userLevel < requiredLevel
           THEN MathMax(Num(30), Num(60 - (requiredLevel - userLevel) * 10))
      ELSE IF userLevel = requiredLevel THEN Num(80)
      ELSE MathMin(Num(100), Num(80 + (userLevel - requiredLevel) * 5))

calculateDocumentScore(count, hasAllRequired) ==
  LET base == IF hasAllRequired THEN 60 + 25 ELSE 60 - 20
      bonus == IF count >= 5 THEN 15 ELSE IF count >= 3 THEN 10 ELSE 0
  IN  MathMax(Num(0), MathMin(Num(100), Num(base + bonus)))

determineScoreCategory(score) ==
  IF Ge(score, Num(75)) THEN "strong_candidate"
  ELSE IF Ge(score, Num(60)) THEN "moderate_fit"
  ELSE IF Ge(score, Num(40)) THEN "consider_alternatives"
  ELSE "not_recommended"

\* list entries are <<sentence, argument>> pairs
Item(text, arg) == <<text, arg>>

\* a sentence pushed whatever its threshold says
IfItemAlways(cond, text, arg) == <<Item(text, arg)>>

IfItem(cond, text, arg) == IF cond THEN <<Item(text, arg)>> ELSE <<>>

generateInsights(breakdown, userProfile, visaType, finalScore) ==
  LET c == visaType.eligibilityCriteria
      strengths ==
        IfItem(Ge(breakdown.experience, Num(80)), "Strong professional background", "experience")
        \o IfItem(Ge(breakdown.education, Num(85)), "Advanced educational qualification", "education")
        \o IfItem(Ge(breakdown.specialization, Num(90)), "Excellent specialization match", "specialization")
        \o IfItem(Ge(breakdown.language, Num(85)), "Strong language proficiency", "language")
        \o IfItem(Ge(breakdown.documentQuality, Num(80)), "Comprehensive documentation provided", "documentQuality")
      improvements ==
        IfItem(Lt(breakdown.experience, Num(60)), "Gain more relevant work experience", "experience")
        \o IfItem(Lt(breakdown.education, Num(65)), "Consider pursuing higher education", "education")
        \o IfItem(Lt(breakdown.language, Num(70)), "Improve language proficiency", "language")
        \o IfItem(Lt(breakdown.documentQuality, Num(70)), "Ensure all required documents are complete", "documentQuality")
        \o IfItem(Lt(breakdown.specialization, Num(60)), "Consider gaining experience in specialized areas", "specialization")
      tier ==
        IF Ge(finalScore, Num(75))
        THEN <<Item("Prepare comprehensive application", ""),
               Item("Gather all supporting documentation and certifications", ""),
               Item("Consider consulting with an immigration attorney", "")>>
        ELSE IF Ge(finalScore, Num(60))
        THEN <<Item("Address the improvement areas mentioned above", ""),
               Item("Gather additional supporting evidence", ""),
               Item("Consider alternative visa options", "")>>
        ELSE <<Item("Focus on building qualifications in key areas", ""),
               Item("Explore alternative visa types", ""),
               Item("Consider professional development and certifications", "")>>
      link == IF visaType.officialLink = Undefined
              THEN "Contact immigration authority" ELSE visaType.officialLink
  IN  [strengths |-> strengths, improvements |-> improvements,
       nextSteps |-> Append(tier, Item("Visit official website", link))]

\* (score / 100) * weight
RuleTerm(score, weight) == Mul(Div(score, Num(100)), Num(weight))

\* weightedScore after the five += statements
WeightedScore(breakdown, weights) ==
  Add(Add(Add(Add(Add(Num(0), RuleTerm(breakdown.experience, weights.experience)),
                  RuleTerm(breakdown.education, weights.education)),
              RuleTerm(breakdown.specialization, weights.specialization)),
          RuleTerm(breakdown.language, weights.language)),
      RuleTerm(breakdown.documentQuality, weights.documentQuality))

calculateScore(userProfile, visaType) ==
  LET c == visaType.eligibilityCriteria
      breakdown ==
        [experience |-> calculateExperienceScore(userProfile.experience, c.minExperienceYears),
         education |-> calculateEducationScore(userProfile.education, c.minEducationLevel),
         specialization |-> calculateSpecializationScore(userProfile.specialization, c.specializations),
         language |-> calculateLanguageScore(userProfile.languageLevel, c.languageRequirement),
         documentQuality |-> calculateDocumentScore(userProfile.documentCount, userProfile.hasAllRequiredDocs)]
      weightedScore == WeightedScore(breakdown, visaType.scoringWeights)
      cappedScore == MathMin(weightedScore, Num(visaType.maxScoreCap))
      finalScore == MathRound(cappedScore)
      insights == generateInsights(breakdown, userProfile, visaType, finalScore)
  IN  [score |-> finalScore,
       scoreBreakdown |-> breakdown,
       scoreCategory |-> determineScoreCategory(finalScore),
       strengths |-> insights.strengths,
       improvements |-> insights.improvements,
       nextSteps |-> insights.nextSteps,
       reasoning |-> "Score calculated for"]

(***************************************************************************)
(* The applicant's free text, reduced to what the extraction patterns see: *)
(* the numbers standing before "years"/"yrs" in text order, the lower-case *)
(* phrases occurring in it, and the CEFR codes in text order.              *)
(***************************************************************************)
Summary(years, words, cefr) == [years |-> years, words |-> words, cefr |-> cefr]

\* summary.includes(x), after summary = professionalSummary.toLowerCase()
SummaryIncludes(summary, x) == \E w \in summary.words : includes(w, x)

\* summary.match(/(\d+)\+?\s*(years?|yrs?)/i), parseInt of the first match
ExtractExperience(summary) ==
  IF Len(summary.years) > 0 THEN summary.years[1] ELSE 0

\* summary.match(/([abc][12])/i), first match lower-cased, default b2
ExtractLanguage(summary) ==
  IF Len(summary.cefr) > 0 THEN summary.cefr[1] ELSE "b2"

RECURSIVE FirstSpec(_, _, _)
FirstSpec(summary, specs, i) ==
  IF i > Len(specs) THEN "general"
  ELSE IF SummaryIncludes(summary, toLowerCase(specs[i])) THEN specs[i]
  ELSE FirstSpec(summary, specs, i + 1)

KnownSpecializations == <<"technology", "engineering", "medicine", "business",
                          "arts", "science", "education">>

\* scoringService.extractUserProfile, the one the controller imports
extractUserProfile(summary, documents) ==
  [experience |-> ExtractExperience(summary),
   education |->
     IF SummaryIncludes(summary, "phd") \/ SummaryIncludes(summary, "doctorate") THEN "phd"
     ELSE IF SummaryIncludes(summary, "master") \/ SummaryIncludes(summary, "msc")
             \/ SummaryIncludes(summary, "mba") THEN "master"
     ELSE IF SummaryIncludes(summary, "bachelor") \/ SummaryIncludes(summary, "bsc")
             \/ SummaryIncludes(summary, "ba ") THEN "bachelor"
     ELSE IF SummaryIncludes(summary, "high school") \/ SummaryIncludes(summary, "diploma")
          THEN "high_school"
     ELSE "bachelor",
   specialization |-> FirstSpec(summary, KnownSpecializations, 1),
   languageLevel |-> ExtractLanguage(summary),
   documentCount |-> Len(documents),
   hasAllRequiredDocs |-> Len(documents) >= 3]

(***************************************************************************)
(* scoringServiceV2: helper scores shared by the oracle-backed and the     *)
(* basic path                                                              *)
(***************************************************************************)
calculateExperienceFromAI(years, minRequired) ==
  IF Ge(years, Num(minRequired + 5)) THEN Num(90)
  ELSE IF Ge(years, Num(minRequired + 3)) THEN Num(80)
  ELSE IF Ge(years, Num(minRequired)) THEN Num(70)
  ELSE IF Ge(years, Num(minRequired - 1)) THEN Num(50)
  ELSE IF Ge(years, Num(minRequired - 2)) THEN Num(30)
  ELSE MathMax(Num(0), Mul(Div(years, Num(minRequired)), Num(40)))

levelsV2 ==
  [high_school |-> 30, bachelor |-> 60, master |-> 80, phd |-> 100]

calculateEducationFromAI(level, required) ==
  LET requiredScore == IF required \in DOMAIN levelsV2 THEN levelsV2[required] ELSE 60
      userScore == IF level \in DOMAIN levelsV2 THEN levelsV2[level] ELSE 30
  IN  IF userScore >= requiredScore THEN Num(userScore)
      ELSE Mul(Div(Num(userScore), Num(requiredScore)), Num(50))

calculateSpecializationScoreV2(field, allowed) ==
  LET fieldLower == toLowerCase(field)
  IN  IF \E spec \in Range(allowed) : fieldLower = toLowerCase(spec) THEN Num(100)
      ELSE IF \E spec \in Range(allowed) :
                \/ includes(fieldLower, toLowerCase(spec))
                \/ includes(toLowerCase(spec), fieldLower)
           THEN Num(70)
           ELSE Num(40)

calculateLanguageScoreV2(level, required) ==
  LET userIndex == indexOf(CefrLevels, level)
      requiredIndex == indexOf(CefrLevels, required)
  IN  IF userIndex = -1 \/ requiredIndex = -1 THEN Num(60)
      ELSE IF userIndex >= requiredIndex
           THEN Num(70 + (userIndex - requiredIndex) * 10)
           ELSE MathMax(Num(20), Num(60 - (requiredIndex - userIndex) * 15))

ParsedCount(parsedDocuments) ==
  Cardinality({i \in DOMAIN parsedDocuments : parsedDocuments[i].parseSuccess})

calculateDocumentQualityFromAI(quality, parsedDocuments) ==
  LET baseScore == CASE quality = "excellent" -> 95
                     [] quality = "good" -> 75
                     [] quality = "fair" -> 50
                     [] quality = "poor" -> 25
                     [] OTHER -> 40
      parsedCount == ParsedCount(parsedDocuments)
      bonus == (IF parsedCount >= 5 THEN 5 ELSE 0) + (IF parsedCount >= 8 THEN 5 ELSE 0)
  IN  MathMin(Num(100), Num(baseScore + bonus))

\* score * weight / 100
BasicTerm(score, weight) == Div(Mul(score, Num(weight)), Num(100))

\* the sum of the five weighted terms
BasicFinalScore(breakdown, weights) ==
  Add(Add(Add(Add(BasicTerm(breakdown.experience, weights.experience),
                  BasicTerm(breakdown.education, weights.education)),
              BasicTerm(breakdown.specialization, weights.specialization)),
          BasicTerm(breakdown.language, weights.language)),
      BasicTerm(breakdown.documentQuality, weights.documentQuality))

\* visaType.maxScoreCap ? Math.min(score, visaType.maxScoreCap) : score
ApplyCap(score, maxScoreCap) ==
  IF Truthy(Num(maxScoreCap)) THEN MathMin(score, Num(maxScoreCap)) ELSE score

BasicCategory(cappedScore) ==
  IF Ge(cappedScore, Num(75)) THEN "strong_candidate"
  ELSE IF Ge(cappedScore, Num(60)) THEN "moderate_fit"
  ELSE IF Ge(cappedScore, Num(40)) THEN "consider_alternatives"
  ELSE "not_recommended"

\* the profile calculateBasicScore extracts from the summary
BasicProfile(summary, visaType) ==
  [experience |-> ExtractExperience(summary),
   education |->
     IF SummaryIncludes(summary, "phd") THEN "phd"
     ELSE IF SummaryIncludes(summary, "master") THEN "master"
     ELSE IF SummaryIncludes(summary, "bachelor") THEN "bachelor"
     ELSE "high_school",
   specialization |-> FirstSpec(summary, visaType.eligibilityCriteria.specializations, 1),
   languageLevel |-> ExtractLanguage(summary)]

\* the scoring half of calculateBasicScore, from the extracted profile on
BasicScoreOf(profile, parsedCount, visaType) ==
  LET c == visaType.eligibilityCriteria
      breakdown ==
        [experience |-> calculateExperienceFromAI(Num(profile.experience), c.minExperienceYears),
         education |-> calculateEducationFromAI(profile.education, c.minEducationLevel),
         specialization |-> calculateSpecializationScoreV2(profile.specialization, c.specializations),
         language |-> calculateLanguageScoreV2(profile.languageLevel, c.languageRequirement),
         documentQuality |-> IF parsedCount >= 3 THEN Num(70) ELSE Num(40)]
      finalScore == BasicFinalScore(breakdown, visaType.scoringWeights)
      cappedScore == ApplyCap(finalScore, visaType.maxScoreCap)
  IN  [score |-> MathRound(cappedScore),
       scoreBreakdown |-> breakdown,
       scoreCategory |-> BasicCategory(cappedScore),
       strengths |-> <<Item("Basic profile extraction", "")>>,
       improvements |-> <<Item("Upload detailed documentation", "")>>,
       nextSteps |-> <<Item("Visit official website", visaType.officialLink)>>,
       reasoning |-> "Basic scoring (AI analysis not available)"]

calculateBasicScore(summary, parsedDocuments, visaType) ==
  BasicScoreOf(BasicProfile(summary, visaType), ParsedCount(parsedDocuments), visaType)

(***************************************************************************)
(* aiAnalysisService: the oracle's JSON payload as JSON.parse returns it   *)
(***************************************************************************)
\* o1aCriteria: NotArray when the key is absent or not an array, otherwise
\* the number of entries; gapsListed is FALSE when the entries scoring
\* under 60 carry no specificGaps list
NotArray == -1

AnalysisFields ==
  {"criteriaMet", "yearsOfExperience", "educationLevel", "fieldOfExpertise",
   "languageProficiency", "overallScore", "approvalLikelihood", "strengths",
   "criticalWeaknesses", "nextSteps", "documentQuality"}

BaseAnalysis ==
  [o1aCriteria |-> 8, gapsListed |-> TRUE, missing |-> {},
   criteriaMet |-> 3, yearsOfExperience |-> Num(6), educationLevel |-> "master",
   fieldOfExpertise |-> "technology", languageProficiency |-> "c1",
   hasNationalInternationalRecognition |-> TRUE,
   hasOriginalContributions |-> FALSE,
   overallScore |-> Num(72), approvalLikelihood |-> "moderate",
   strengths |-> <<Item("oracle strength", "")>>,
   criticalWeaknesses |-> <<Item("oracle weakness", "")>>,
   nextSteps |-> <<Item("oracle next step", "")>>,
   documentQuality |-> "good"]

OracleScores == {Num(-5), Num(0), Num(30), <<149, 2>>, Num(72), Num(100), Num(130)}

Likelihoods == {"very_low", "low", "moderate", "high", "very_high"}

\* payloads the oracle may answer with: the scores and likelihoods it may
\* state, every single absent field, and every shape of the criteria list
OracleResponses ==
  {[BaseAnalysis EXCEPT !.overallScore = s, !.approvalLikelihood = l] :
      s \in OracleScores, l \in {"very_low", "moderate", "high"}}
  \cup {[BaseAnalysis EXCEPT !.approvalLikelihood = l] : l \in Likelihoods}
  \cup {[BaseAnalysis EXCEPT !.missing = {f}] : f \in AnalysisFields}
  \cup {[BaseAnalysis EXCEPT !.o1aCriteria = n] : n \in {NotArray, 0, 3}}
  \cup {[BaseAnalysis EXCEPT !.gapsListed = FALSE]}
  \cup {[BaseAnalysis EXCEPT !.yearsOfExperience = Num(y), !.educationLevel = e,
                             !.languageProficiency = "a1"] :
          y \in {0, 5}, e \in {"high_school", "phd"}}

\* if (!analysis.o1aCriteria || !Array.isArray(analysis.o1aCriteria)) throw
AnalysisStructureValid(analysis) == analysis.o1aCriteria # NotArray

\* every criterion and every field the scorer reads is there
StructurallyValid(analysis) ==
  /\ analysis.o1aCriteria = 8
  /\ analysis.gapsListed
  /\ analysis.missing = {}

\* generatePersonalizedRecommendations builds its prompt outside its try:
\* criticalWeaknesses.join and specificGaps.join throw on undefined
RecommendationsPromptThrows(analysis) ==
  \/ "criticalWeaknesses" \in analysis.missing
  \/ analysis.o1aCriteria > 0 /\ ~analysis.gapsListed

\* calculateO1AScore after both oracle calls: toLowerCase, replace and
\* toUpperCase on an absent string throw a TypeError
O1AScoringThrows(analysis) ==
  analysis.missing \cap {"fieldOfExpertise", "languageProficiency",
                         "approvalLikelihood", "educationLevel",
                         "documentQuality"} # {}

NumField(analysis, f, value) == IF f \in analysis.missing THEN NaN ELSE value

ListField(analysis, f, value) == IF f \in analysis.missing THEN <<>> ELSE value

O1ACategory(approvalLikelihood) ==
  IF approvalLikelihood \in {"very_high", "high"} THEN "strong_candidate"
  ELSE IF approvalLikelihood = "moderate" THEN "moderate_fit"
  ELSE IF approvalLikelihood = "low" THEN "consider_alternatives"
  ELSE "not_recommended"

\* the return value of calculateO1AScore's try block; an absent list is
\* undefined in the result and stored as an empty array
O1AResult(aiAnalysis, parsedDocuments, visaType) ==
  LET c == visaType.eligibilityCriteria
      breakdown ==
        [experience |-> calculateExperienceFromAI(
             NumField(aiAnalysis, "yearsOfExperience", aiAnalysis.yearsOfExperience),
             c.minExperienceYears),
         education |-> calculateEducationFromAI(aiAnalysis.educationLevel, c.minEducationLevel),
         specialization |-> calculateSpecializationScoreV2(aiAnalysis.fieldOfExpertise, c.specializations),
         language |-> calculateLanguageScoreV2(aiAnalysis.languageProficiency, c.languageRequirement),
         documentQuality |-> calculateDocumentQualityFromAI(aiAnalysis.documentQuality, parsedDocuments),
         o1aCriteriaMet |-> Mul(Div(NumField(aiAnalysis, "criteriaMet", Num(aiAnalysis.criteriaMet)),
                                    Num(8)), Num(100)),
         nationalRecognition |-> IF aiAnalysis.hasNationalInternationalRecognition
                                 THEN Num(100) ELSE Num(0),
         originalContributions |-> IF aiAnalysis.hasOriginalContributions
                                   THEN Num(100) ELSE Num(0)]
      finalScore == NumField(aiAnalysis, "overallScore", aiAnalysis.overallScore)
      cappedScore == ApplyCap(finalScore, visaType.maxScoreCap)
  IN  [score |-> MathRound(cappedScore),
       scoreBreakdown |-> breakdown,
       scoreCategory |-> O1ACategory(aiAnalysis.approvalLikelihood),
       strengths |-> ListField(aiAnalysis, "strengths", aiAnalysis.strengths),
       improvements |-> ListField(aiAnalysis, "criticalWeaknesses", aiAnalysis.criticalWeaknesses),
       nextSteps |-> ListField(aiAnalysis, "nextSteps", aiAnalysis.nextSteps),
       reasoning |-> "=== O-1A VISA EVALUATION"]

(***************************************************************************)
(* documentParsingService                                                  *)
(***************************************************************************)
\* a text is a sequence of characters: "x" (printable, non-space) or " "
RECURSIVE WordCount(_)
WordCount(text) ==
  IF Len(text) = 0 THEN 0
  ELSE IF text[1] = " " THEN WordCount(Tail(text))
  ELSE IF Len(text) > 1 /\ text[2] # " " THEN WordCount(Tail(text))
  ELSE 1 + WordCount(Tail(text))

RECURSIVE TrimStart(_)
TrimStart(text) ==
  IF Len(text) > 0 /\ text[1] = " " THEN TrimStart(Tail(text)) ELSE text

RECURSIVE TrimEnd(_)
TrimEnd(text) ==
  IF Len(text) > 0 /\ text[Len(text)] = " "
  THEN TrimEnd(SubSeq(text, 1, Len(text) - 1)) ELSE text

trim(text) == TrimEnd(TrimStart(text))

\* '[Image file - OCR not implemented]': six words
ImageText == <<"x", " ", "x", " ", "x", " ", "x", " ", "x", " ", "x">>

\* path.extname(fileName).toLowerCase()
extLower(ext) ==
  CASE ext = ".PDF" -> ".pdf"
    [] ext = ".Docx" -> ".docx"
    [] ext = ".TXT" -> ".txt"
    [] ext = ".JPG" -> ".jpg"
    [] ext = ".Png" -> ".png"
    [] ext = ".EXE" -> ".exe"
    [] OTHER -> ext

File(fieldname, name, ext, status, text) ==
  [fieldname |-> fieldname, originalname |-> name, ext |-> ext,
   status |-> status, text |-> text]

\* status: "good" (the bytes are a well-formed file of their format),
\* "corrupt" (readable bytes the format parser rejects), "unreadable"
\* (fs.readFileSync fails).  The switch statement either completes with the
\* three locals set or throws.
Completed(text, ok, error) == [threw |-> FALSE, text |-> text, ok |-> ok, error |-> error]

Thrown(message) == [threw |-> TRUE, text |-> <<>>, ok |-> FALSE, error |-> message]

\* the image branch reporting success
SwitchOnExtensionImageSuccess(file) ==
  LET ext == extLower(file.ext)
  IN  CASE ext \in {".pdf", ".docx"} ->
             IF file.status = "good" THEN Completed(file.text, TRUE, "")
             ELSE Thrown("Failed to parse")
        [] ext = ".doc" ->
             IF file.status = "unreadable" THEN Thrown("Failed to parse DOC")
             ELSE Completed(file.text, TRUE, "")
        [] ext = ".txt" ->
             IF file.status = "unreadable" THEN Thrown("ENOENT")
             ELSE Completed(file.text, TRUE, "")
        [] ext \in {".jpg", ".jpeg", ".png"} ->
             Completed(ImageText, TRUE, "")
        [] OTHER ->
             Completed(<<>>, FALSE, "Unsupported file type")

SwitchOnExtension(file) ==
  LET ext == extLower(file.ext)
  IN  CASE ext \in {".pdf", ".docx"} ->
             IF file.status = "good" THEN Completed(file.text, TRUE, "")
             ELSE Thrown("Failed to parse")
        [] ext = ".doc" ->
             IF file.status = "unreadable" THEN Thrown("Failed to parse DOC")
             ELSE Completed(file.text, TRUE, "")
        [] ext = ".txt" ->
             IF file.status = "unreadable" THEN Thrown("ENOENT")
             ELSE Completed(file.text, TRUE, "")
        [] ext \in {".jpg", ".jpeg", ".png"} ->
             Completed(ImageText, FALSE, "Image file requires OCR for text extraction")
        [] OTHER ->
             Completed(<<>>, FALSE, "Unsupported file type")

\* catch (err) { parseSuccess = false; error = err.message }
CatchParseError(outcome) ==
  IF outcome.threw THEN Completed(outcome.text, FALSE, outcome.error) ELSE outcome

parseDocument(file, documentType) ==
  LET parsed == CatchParseError(SwitchOnExtension(file))
  IN  [fileName |-> file.originalname,
       documentType |-> documentType,
       extractedText |-> trim(parsed.text),
       wordCount |-> WordCount(parsed.text),
       parseSuccess |-> parsed.ok,
       error |-> parsed.error,
       threw |-> parsed.threw]

\* file.fieldname || 'other'
FieldOrOther(fieldname) == IF fieldname = "" THEN "other" ELSE fieldname

(***************************************************************************)
(* Requests                                                                *)
(***************************************************************************)
DocumentTypeEnum ==
  {"resume", "education", "experience", "personal_statement",
   "language_certificate", "other"}

Files ==
  {File("resume", "cv.pdf", ".pdf", "good", <<"x", " ", "x">>),
   File("resume", "CV.PDF", ".PDF", "corrupt", <<"x">>),
   File("", "scan.Png", ".Png", "good", <<"x">>),
   File("passport", "id.pdf", ".pdf", "good", <<"x">>)}

RECURSIVE SeqsUpTo(_, _)
SeqsUpTo(S, n) ==
  IF n = 0 THEN {<<>>}
  ELSE LET shorter == SeqsUpTo(S, n - 1)
       IN  shorter \cup {Append(q, x) : q \in shorter, x \in S}

Summaries ==
  {Summary(<<5>>, {"bachelor", "technology"}, <<>>),
   Summary(<<10>>, {"phd"}, <<>>),
   Summary(<<>>, {}, <<>>),
   Summary(<<2, 12>>, {"master", "doctorate", "arts"}, <<"c2", "a1">>),
   Summary(<<0>>, {"high school", "tech"}, <<"a1">>)}

VisaTypeIds == {v.visaTypeId : v \in VisaTypes} \cup {"unknown"}

Request(bodyValid, visaTypeId, summary, files, partner) ==
  [bodyValid |-> bodyValid, email |-> "a@x.org", visaTypeId |-> visaTypeId,
   professionalSummary |-> summary, files |-> files, partner |-> partner]

Requests ==
  {Request(TRUE, id, sm, fs, p) :
      id \in VisaTypeIds, sm \in Summaries,
      fs \in SeqsUpTo(Files, MaxFiles), p \in BOOLEAN}
  \cup {Request(FALSE, "o1a", sm, <<>>, FALSE) : sm \in Summaries}

NoRequest == Request(FALSE, "unknown", Summary(<<>>, {}, <<>>), <<>>, FALSE)

NoVisaType == VisaType("unknown", Undefined, 0, "high_school", <<>>, "a1",
                       Weights(0, 0, 0, 0, 0), 0, Undefined)

NoAnalysis == [BaseAnalysis EXCEPT !.o1aCriteria = NotArray]

NoResult ==
  [score |-> NaN, scoreBreakdown |-> [experience |-> NaN], scoreCategory |-> "",
   strengths |-> <<>>, improvements |-> <<>>, nextSteps |-> <<>>, reasoning |-> ""]

NoResponse == [status |-> 0, success |-> FALSE, evaluationId |-> 0]

(***************************************************************************)
(* State                                                                   *)
(***************************************************************************)
VARIABLES
  apiKey,            \* process.env.OPENAI_API_KEY is set
  openaiClient,      \* the module-level client: "null" or "client"
  pc,                \* position of the createEvaluation handler
  req,               \* the request being handled
  visaType,          \* the document VisaType.findOne returned
  parsedDocuments,   \* parsedDocuments of the handler
  aiAnalysis,        \* the analysis calculateO1AScore holds
  oracleOutcome,     \* what became of the analysis call of this run
  analysisCalls,     \* analysis requests sent to the oracle in this run
  recommendCalls,    \* recommendation requests sent to the oracle in this run
  scoringPath,       \* the function that produced scoringResult
  scoringResult,     \* scoringResult of the handler
  evaluations,       \* the Evaluation collection, in order of creation
  userSubmissions,   \* the UserSubmission collection: email -> evaluationIds
  submissionCount,   \* Partner.submissionCount of the calling partner
  response,          \* the HTTP response sent for the request
  probe,             \* the profile a scoring function is applied to directly
  evaluation,        \* _id of the document Evaluation.create gave this run, 0 before
  served,            \* the response of the read handler that ran last
  parked,            \* the handler-local state of the other request in progress
  runs,              \* requests whose handling has ended and been cleared
  wizard             \* the evaluation wizard in the browser: provider state, mounted step

vars ==
  <<apiKey, openaiClient, pc, req, visaType, parsedDocuments, aiAnalysis,
    oracleOutcome, analysisCalls, recommendCalls, scoringPath, scoringResult,
    evaluations, userSubmissions, submissionCount, response, probe,
    evaluation, served, parked, runs, wizard>>

runVars ==
  <<req, visaType, parsedDocuments, aiAnalysis, oracleOutcome, analysisCalls,
    recommendCalls, scoringPath, scoringResult, response>>

storeVars == <<evaluations, userSubmissions, submissionCount>>

serviceVars == <<served, parked, runs, wizard>>

\* what a step of the handler leaves alone unless it says otherwise
probeVars == <<probe, evaluation, serviceVars>>

\* the variables local to one invocation of createEvaluation
RunLocal ==
  <<pc, req, visaType, parsedDocuments, aiAnalysis, oracleOutcome, analysisCalls,
    recommendCalls, scoringPath, scoringResult, response, evaluation>>

IdleRun ==
  <<"idle", NoRequest, NoVisaType, <<>>, NoAnalysis, "none", 0, 0, "none",
    NoResult, NoResponse, 0>>

NoServed == [kind |-> "none", status |-> 0, data |-> <<>>]

\* EvaluationContext.tsx initialState, before any step but the first is mounted
initialState ==
  [currentStep |-> 1, targetCountry |-> "", visaType |-> "",
   uploadedDocuments |-> <<>>, countries |-> <<>>, loading |-> FALSE,
   selectedCountryCode |-> "", selectedVisaId |-> ""]

ServiceIdle ==
  /\ evaluation = 0
  /\ served = NoServed
  /\ parked = IdleRun
  /\ runs = 0
  /\ wizard = initialState

Profile(kind, years, education, specialization, languageLevel, count) ==
  [kind |-> kind, experience |-> years, education |-> education,
   specialization |-> specialization, languageLevel |-> languageLevel,
   documentCount |-> count, hasAllRequiredDocs |-> count >= 3]

NoProbe == Profile("none", 0, "bachelor", "general", "b2", 0)

Init ==
  /\ apiKey \in BOOLEAN
  /\ openaiClient = "null"
  /\ pc = "idle"
  /\ req = NoRequest
  /\ visaType = NoVisaType
  /\ parsedDocuments = <<>>
  /\ aiAnalysis = NoAnalysis
  /\ oracleOutcome = "none"
  /\ analysisCalls = 0
  /\ recommendCalls = 0
  /\ scoringPath = "none"
  /\ scoringResult = NoResult
  /\ evaluations = <<>>
  /\ userSubmissions = [e \in {"a@x.org"} |-> <<>>]
  /\ submissionCount = 0
  /\ response = NoResponse
  /\ probe = NoProbe
  /\ ServiceIdle

(***************************************************************************)
(* createEvaluation                                                        *)
(***************************************************************************)
\* errorHandler: the response for an error that left the handler
ErrorResponse(status) == [status |-> status, success |-> FALSE, evaluationId |-> 0]

Fail(status) ==
  /\ response' = ErrorResponse(status)
  /\ pc' = "done"

\* the request has passed validateApiKey and upload.any()
Submit ==
  /\ pc = "idle"
  /\ \E r \in Requests : req' = r
  /\ pc' = "validate"
  /\ UNCHANGED <<apiKey, openaiClient, visaType, parsedDocuments, aiAnalysis,
                 oracleOutcome, analysisCalls, recommendCalls, scoringPath,
                 scoringResult, response>>
  /\ UNCHANGED storeVars
  /\ UNCHANGED probeVars

\* createEvaluationSchema.parse(req.body) throws a ZodError
RejectBody ==
  /\ pc = "validate"
  /\ ~req.bodyValid
  /\ Fail(422)
  /\ UNCHANGED <<apiKey, openaiClient, req, visaType, parsedDocuments, aiAnalysis,
                 oracleOutcome, analysisCalls, recommendCalls, scoringPath,
                 scoringResult>>
  /\ UNCHANGED storeVars
  /\ UNCHANGED probeVars

\* VisaType.findOne({ visaTypeId }) finds nothing
RejectVisaType ==
  /\ pc = "validate"
  /\ req.bodyValid
  /\ ~\E v \in VisaTypes : v.visaTypeId = req.visaTypeId
  /\ Fail(404)
  /\ UNCHANGED <<apiKey, openaiClient, req, visaType, parsedDocuments, aiAnalysis,
                 oracleOutcome, analysisCalls, recommendCalls, scoringPath,
                 scoringResult>>
  /\ UNCHANGED storeVars
  /\ UNCHANGED probeVars

AcceptRequest ==
  /\ pc = "validate"
  /\ req.bodyValid
  /\ \E v \in VisaTypes :
       /\ v.visaTypeId = req.visaTypeId
       /\ visaType' = v
  /\ pc' = "parse"
  /\ UNCHANGED <<apiKey, openaiClient, req, parsedDocuments, aiAnalysis,
                 oracleOutcome, analysisCalls, recommendCalls, scoringPath,
                 scoringResult, response>>
  /\ UNCHANGED storeVars
  /\ UNCHANGED probeVars

\* uploadedFiles.map(...): the documents stored with the evaluation
uploadedDocuments(files) ==
  [i \in DOMAIN files |->
     [documentType |-> FieldOrOther(files[i].fieldname),
      fileName |-> files[i].originalname]]

\* one turn of the for loop over uploadedFiles, with its try/catch
ParseNextDocument ==
  /\ pc = "parse"
  /\ Len(parsedDocuments) < Len(req.files)
  /\ LET file == req.files[Len(parsedDocuments) + 1]
         parsed == parseDocument(file, FieldOrOther(file.fieldname))
     IN  parsedDocuments' =
           Append(parsedDocuments,
                  IF parsed.threw
                  THEN [parsed EXCEPT !.extractedText = <<>>, !.wordCount = 0,
                                      !.parseSuccess = FALSE, !.threw = FALSE]
                  ELSE parsed)
  /\ UNCHANGED <<apiKey, openaiClient, pc, req, visaType, aiAnalysis,
                 oracleOutcome, analysisCalls, recommendCalls, scoringPath,
                 scoringResult, response>>
  /\ UNCHANGED storeVars
  /\ UNCHANGED probeVars

AllParsed == pc = "parse" /\ Len(parsedDocuments) = Len(req.files)

SetResult(path, result) ==
  /\ scoringPath' = path
  /\ scoringResult' = result
  /\ pc' = "create"

FallBackToBasic ==
  SetResult("basic", calculateBasicScore(req.professionalSummary, parsedDocuments, visaType))

\* visaName.includes throws in calculateScoreWithAI; the controller catches it
\* and scores with extractUserProfile + calculateScore
ScoreRuleBased ==
  /\ AllParsed
  /\ visaType.visaName = Undefined
  /\ SetResult("rule", calculateScore(
         extractUserProfile(req.professionalSummary, uploadedDocuments(req.files)),
         visaType))
  /\ UNCHANGED <<apiKey, openaiClient, req, visaType, parsedDocuments, aiAnalysis,
                 oracleOutcome, analysisCalls, recommendCalls, response>>
  /\ UNCHANGED storeVars
  /\ UNCHANGED probeVars

\* calculateScoreWithAI for a visa type that is not O-1
ScoreBasic ==
  /\ AllParsed
  /\ visaType.visaName # Undefined
  /\ ~NameIncludesO1(visaType.visaName)
  /\ FallBackToBasic
  /\ UNCHANGED <<apiKey, openaiClient, req, visaType, parsedDocuments, aiAnalysis,
                 oracleOutcome, analysisCalls, recommendCalls, response>>
  /\ UNCHANGED storeVars
  /\ UNCHANGED probeVars

\* getOpenAIClient(): no client yet and no OPENAI_API_KEY
ClientUnavailable == openaiClient = "null" /\ ~apiKey

\* analyzeO1AApplication fails in getOpenAIClient; calculateO1AScore catches
AnalysisWithoutCredential ==
  /\ AllParsed
  /\ visaType.visaName # Undefined
  /\ NameIncludesO1(visaType.visaName)
  /\ ClientUnavailable
  /\ oracleOutcome' = "nocred"
  /\ FallBackToBasic
  /\ UNCHANGED <<apiKey, openaiClient, req, visaType, parsedDocuments, aiAnalysis,
                 analysisCalls, recommendCalls, response>>
  /\ UNCHANGED storeVars
  /\ UNCHANGED probeVars

\* analyzeO1AApplication sends openai.chat.completions.create and awaits it
RequestAnalysis ==
  /\ AllParsed
  /\ visaType.visaName # Undefined
  /\ NameIncludesO1(visaType.visaName)
  /\ ~ClientUnavailable
  /\ openaiClient' = "client"
  /\ analysisCalls' = analysisCalls + 1
  /\ oracleOutcome' = "pending"
  /\ pc' = "analysis"
  /\ UNCHANGED <<apiKey, req, visaType, parsedDocuments, aiAnalysis,
                 recommendCalls, scoringPath, scoringResult, response>>
  /\ UNCHANGED storeVars
  /\ UNCHANGED probeVars

\* a failed analysis call being sent again
AnalysisFailsRetry ==
  /\ pc = "analysis"
  /\ analysisCalls' = analysisCalls + 1
  /\ UNCHANGED <<apiKey, openaiClient, pc, req, visaType, parsedDocuments,
                 aiAnalysis, oracleOutcome, recommendCalls, scoringPath,
                 scoringResult, response>>
  /\ UNCHANGED storeVars
  /\ UNCHANGED probeVars

\* the analysis call rejects, or answers with no content, or with text that
\* JSON.parse rejects
AnalysisFails ==
  /\ pc = "analysis"
  /\ \E o \in {"error", "empty", "unparsable"} : oracleOutcome' = o
  /\ FallBackToBasic
  /\ UNCHANGED <<apiKey, openaiClient, req, visaType, parsedDocuments, aiAnalysis,
                 analysisCalls, recommendCalls, response>>
  /\ UNCHANGED storeVars
  /\ UNCHANGED probeVars

\* the analysis call answers with JSON; analyzeO1AApplication validates it and
\* generatePersonalizedRecommendations builds its prompt and sends its request
AnalysisAnswers ==
  /\ pc = "analysis"
  /\ \E r \in OracleResponses :
       IF ~AnalysisStructureValid(r)
       THEN /\ oracleOutcome' = "invalid"
            /\ FallBackToBasic
            /\ UNCHANGED <<aiAnalysis, recommendCalls>>
       ELSE IF RecommendationsPromptThrows(r)
       THEN /\ oracleOutcome' = "answered"
            /\ FallBackToBasic
            /\ UNCHANGED <<aiAnalysis, recommendCalls>>
       ELSE /\ oracleOutcome' = "answered"
            /\ aiAnalysis' = r
            /\ recommendCalls' = recommendCalls + 1
            /\ pc' = "recommend"
            /\ UNCHANGED <<scoringPath, scoringResult>>
  /\ UNCHANGED <<apiKey, openaiClient, req, visaType, parsedDocuments,
                 analysisCalls, response>>
  /\ UNCHANGED storeVars
  /\ UNCHANGED probeVars

\* the recommendation call settles (its failure is replaced by fixed
\* recommendations); calculateO1AScore builds its result or catches
RecommendationsSettle ==
  /\ pc = "recommend"
  /\ IF O1AScoringThrows(aiAnalysis)
     THEN FallBackToBasic
     ELSE SetResult("oracle", O1AResult(aiAnalysis, parsedDocuments, visaType))
  /\ UNCHANGED <<apiKey, openaiClient, req, visaType, parsedDocuments, aiAnalysis,
                 oracleOutcome, analysisCalls, recommendCalls, response>>
  /\ UNCHANGED storeVars
  /\ UNCHANGED probeVars

\* the summary sentence: the score and the tone chosen by the category
SummaryOf(result) ==
  <<result.score,
    IF result.scoreCategory = "strong_candidate" THEN "strong"
    ELSE IF result.scoreCategory = "moderate_fit" THEN "moderate"
    ELSE "discouraging">>

\* z.string().email().toLowerCase().trim() of createEvaluationSchema: the
\* address as typed becomes validatedData.email
emailToLowerCase(e) == IF e = "A@X.org" THEN "a@x.org" ELSE e

\* the document handed to Evaluation.create
EvaluationDoc(id) ==
  [id |-> id,
   email |-> emailToLowerCase(req.email),
   partnerKey |-> req.partner,
   visaTypeId |-> req.visaTypeId,
   uploadedDocuments |-> uploadedDocuments(req.files),
   score |-> scoringResult.score,
   scoreBreakdown |-> scoringResult.scoreBreakdown,
   scoreCategory |-> scoringResult.scoreCategory,
   strengths |-> scoringResult.strengths,
   improvements |-> scoringResult.improvements,
   nextSteps |-> scoringResult.nextSteps,
   summary |-> SummaryOf(scoringResult),
   reasoning |-> scoringResult.reasoning,
   status |-> "completed"]

\* evaluationSchema: score is a number in 0..100, breakdown entries are
\* numbers, every uploaded document's documentType is in the enum
SchemaAccepts(doc) ==
  /\ ~isNaN(doc.score)
  /\ Ge(doc.score, Num(0))
  /\ Ge(Num(100), doc.score)
  /\ \A d \in DOMAIN doc.scoreBreakdown : ~isNaN(doc.scoreBreakdown[d])
  /\ \A i \in DOMAIN doc.uploadedDocuments :
       doc.uploadedDocuments[i].documentType \in DocumentTypeEnum

\* a success response naming the oldest record
Respond201FirstRecord ==
  /\ response' = [status |-> 201, success |-> TRUE, evaluationId |-> 1]
  /\ pc' = "done"

Respond201 ==
  /\ response' = [status |-> 201, success |-> TRUE,
                  evaluationId |-> evaluation]
  /\ pc' = "done"

\* Evaluation.create resolves
CreateEvaluation ==
  /\ pc = "create"
  /\ SchemaAccepts(EvaluationDoc(Len(evaluations) + 1))
  /\ evaluations' = Append(evaluations, EvaluationDoc(Len(evaluations) + 1))
  /\ evaluation' = Len(evaluations) + 1
  /\ pc' = "submission"
  /\ UNCHANGED <<userSubmissions, submissionCount>>
  /\ UNCHANGED <<apiKey, openaiClient>>
  /\ UNCHANGED runVars
  /\ UNCHANGED <<probe, serviceVars>>

\* Evaluation.create rejects with a ValidationError
CreateRejectedBySchema ==
  /\ pc = "create"
  /\ ~SchemaAccepts(EvaluationDoc(Len(evaluations) + 1))
  /\ Fail(422)
  /\ UNCHANGED <<apiKey, openaiClient, req, visaType, parsedDocuments, aiAnalysis,
                 oracleOutcome, analysisCalls, recommendCalls, scoringPath,
                 scoringResult>>
  /\ UNCHANGED storeVars
  /\ UNCHANGED probeVars

\* Evaluation.create rejects because the database is unavailable
CreateFails ==
  /\ pc = "create"
  /\ Fail(500)
  /\ UNCHANGED <<apiKey, openaiClient, req, visaType, parsedDocuments, aiAnalysis,
                 oracleOutcome, analysisCalls, recommendCalls, scoringPath,
                 scoringResult>>
  /\ UNCHANGED storeVars
  /\ UNCHANGED probeVars

\* UserSubmission.findOneAndUpdate with $push and upsert resolves; without a
\* partner the handler goes on to send its 201
UpdateUserSubmission ==
  /\ pc = "submission"
  /\ userSubmissions' =
       [userSubmissions EXCEPT ![emailToLowerCase(req.email)] = Append(@, evaluation)]
  /\ IF req.partner
     THEN pc' = "partner" /\ UNCHANGED response
     ELSE Respond201
  /\ UNCHANGED <<evaluations, submissionCount>>
  /\ UNCHANGED <<apiKey, openaiClient, req, visaType, parsedDocuments, aiAnalysis,
                 oracleOutcome, analysisCalls, recommendCalls, scoringPath,
                 scoringResult>>
  /\ UNCHANGED probeVars

UpdateUserSubmissionFails ==
  /\ pc = "submission"
  /\ Fail(500)
  /\ UNCHANGED <<apiKey, openaiClient, req, visaType, parsedDocuments, aiAnalysis,
                 oracleOutcome, analysisCalls, recommendCalls, scoringPath,
                 scoringResult>>
  /\ UNCHANGED storeVars
  /\ UNCHANGED probeVars

\* the counter written from a value read earlier instead of incremented in
\* the database
UpdatePartnerSetsOne ==
  /\ pc = "partner"
  /\ submissionCount' = 1
  /\ Respond201
  /\ UNCHANGED <<evaluations, userSubmissions>>
  /\ UNCHANGED <<apiKey, openaiClient, req, visaType, parsedDocuments, aiAnalysis,
                 oracleOutcome, analysisCalls, recommendCalls, scoringPath,
                 scoringResult>>
  /\ UNCHANGED probeVars

\* Partner.findByIdAndUpdate with $inc resolves and the handler sends its 201
UpdatePartner ==
  /\ pc = "partner"
  /\ submissionCount' = submissionCount + 1
  /\ Respond201
  /\ UNCHANGED <<evaluations, userSubmissions>>
  /\ UNCHANGED <<apiKey, openaiClient, req, visaType, parsedDocuments, aiAnalysis,
                 oracleOutcome, analysisCalls, recommendCalls, scoringPath,
                 scoringResult>>
  /\ UNCHANGED probeVars

UpdatePartnerFails ==
  /\ pc = "partner"
  /\ Fail(500)
  /\ UNCHANGED <<apiKey, openaiClient, req, visaType, parsedDocuments, aiAnalysis,
                 oracleOutcome, analysisCalls, recommendCalls, scoringPath,
                 scoringResult>>
  /\ UNCHANGED storeVars
  /\ UNCHANGED probeVars

\* the steps of the handler itself
HandlerStep ==
  \/ RejectBody
  \/ RejectVisaType
  \/ AcceptRequest
  \/ ParseNextDocument
  \/ ScoreRuleBased
  \/ ScoreBasic
  \/ AnalysisWithoutCredential
  \/ RequestAnalysis

\* the answers of the oracle
OracleStep ==
  \/ AnalysisFails
  \/ AnalysisAnswers
  \/ RecommendationsSettle

\* the answers of the database
StoreStep ==
  \/ CreateEvaluation
  \/ CreateRejectedBySchema
  \/ CreateFails
  \/ UpdateUserSubmission
  \/ UpdateUserSubmissionFails
  \/ UpdatePartner
  \/ UpdatePartnerFails

Next ==
  \/ Submit
  \/ HandlerStep
  \/ OracleStep
  \/ StoreStep

Spec == Init /\ [][Next]_vars

(***************************************************************************)
(* Direct application of the scoring functions to bounded inputs           *)
(***************************************************************************)
ProbeSpecializations == {"technology", "Technology", "tech", "general"}

ProbeDocumentCounts == {0, 3, 5}

Profiles ==
  {Profile("profile", y, e, sp, l, 0) :
      y \in 0..MaxYears, e \in EducationLevels, sp \in ProbeSpecializations,
      l \in Range(CefrLevels)}

\* n successfully parsed documents
ParsedDocs(n) ==
  [i \in 1..n |-> parseDocument(File("resume", "cv.pdf", ".pdf", "good", <<"x">>), "resume")]

\* a visa type document with a long minimum, as the schema's min: 0 admits
ProbeVisaTypes ==
  {VisaType("senior_expert", "Senior Expert Visa", 15, "master", <<"science">>,
            "c1", Weights(40, 20, 15, 15, 10), 90, "link")}

ScoreInit ==
  /\ apiKey = TRUE
  /\ openaiClient = "null"
  /\ pc = "probe"
  /\ req = NoRequest
  /\ visaType \in VisaTypes \cup ProbeVisaTypes
  /\ \E n \in ProbeDocumentCounts : parsedDocuments = ParsedDocs(n)
  /\ \/ /\ \E p \in Profiles :
             probe = [p EXCEPT !.documentCount = Len(parsedDocuments),
                               !.hasAllRequiredDocs = Len(parsedDocuments) >= 3]
        /\ aiAnalysis = NoAnalysis
     \/ /\ probe = [NoProbe EXCEPT !.kind = "analysis"]
        /\ aiAnalysis \in OracleResponses
  /\ oracleOutcome = "none"
  /\ analysisCalls = 0
  /\ recommendCalls = 0
  /\ scoringPath = "none"
  /\ scoringResult = NoResult
  /\ evaluations = <<>>
  /\ userSubmissions = [e \in {"a@x.org"} |-> <<>>]
  /\ submissionCount = 0
  /\ response = NoResponse
  /\ ServiceIdle

ProbeFrame ==
  /\ pc' = "probed"
  /\ UNCHANGED <<apiKey, openaiClient, req, visaType, parsedDocuments, aiAnalysis,
                 oracleOutcome, analysisCalls, recommendCalls, response>>
  /\ UNCHANGED storeVars
  /\ UNCHANGED probeVars

ApplyCalculateScore ==
  /\ pc = "probe"
  /\ probe.kind = "profile"
  /\ scoringPath' = "rule"
  /\ scoringResult' = calculateScore(probe, visaType)
  /\ ProbeFrame

ApplyCalculateBasicScore ==
  /\ pc = "probe"
  /\ probe.kind = "profile"
  /\ scoringPath' = "basic"
  /\ scoringResult' = BasicScoreOf(probe, ParsedCount(parsedDocuments), visaType)
  /\ ProbeFrame

ApplyCalculateO1AScore ==
  /\ pc = "probe"
  /\ probe.kind = "analysis"
  /\ AnalysisStructureValid(aiAnalysis)
  /\ ~RecommendationsPromptThrows(aiAnalysis)
  /\ ~O1AScoringThrows(aiAnalysis)
  /\ scoringPath' = "oracle"
  /\ scoringResult' = O1AResult(aiAnalysis, parsedDocuments, visaType)
  /\ ProbeFrame

ScoreNext ==
  \/ ApplyCalculateScore
  \/ ApplyCalculateBasicScore
  \/ ApplyCalculateO1AScore

ScoreSpec == ScoreInit /\ [][ScoreNext]_vars

(***************************************************************************)
(* Direct application of parseDocument to bounded inputs                   *)
(***************************************************************************)
ProbeExtensions ==
  {".pdf", ".PDF", ".docx", ".Docx", ".doc", ".txt", ".TXT", ".jpg", ".JPG",
   ".jpeg", ".png", ".Png", ".exe", ".EXE", ".gif", ""}

ProbeTexts == {<<>>, <<"x">>, <<" ", "x", "x", " ", " ", "x", " ">>}

ProbeFiles ==
  {File(fn, "file", ext, st, t) :
      fn \in {"resume", ""}, ext \in ProbeExtensions,
      st \in {"good", "corrupt", "unreadable"}, t \in ProbeTexts}

ParseInit ==
  /\ apiKey = TRUE
  /\ openaiClient = "null"
  /\ pc = "probe"
  /\ \E f \in ProbeFiles : req = [NoRequest EXCEPT !.files = <<f>>]
  /\ visaType = NoVisaType
  /\ parsedDocuments = <<>>
  /\ aiAnalysis = NoAnalysis
  /\ oracleOutcome = "none"
  /\ analysisCalls = 0
  /\ recommendCalls = 0
  /\ scoringPath = "none"
  /\ scoringResult = NoResult
  /\ evaluations = <<>>
  /\ userSubmissions = [e \in {"a@x.org"} |-> <<>>]
  /\ submissionCount = 0
  /\ response = NoResponse
  /\ probe = NoProbe
  /\ ServiceIdle

\* a parser that removes the upload once it has read it
ApplyParseDocumentConsuming ==
  /\ pc = "probe"
  /\ Len(req.files) = 1
  /\ parsedDocuments' =
       <<parseDocument(req.files[1], FieldOrOther(req.files[1].fieldname))>>
  /\ req' = [req EXCEPT !.files[1].status = "unreadable"]
  /\ pc' = "probed"
  /\ UNCHANGED <<apiKey, openaiClient, visaType, aiAnalysis, oracleOutcome,
                 analysisCalls, recommendCalls, scoringPath, scoringResult,
                 response>>
  /\ UNCHANGED storeVars
  /\ UNCHANGED probeVars

ApplyParseDocument ==
  /\ pc = "probe"
  /\ Len(req.files) = 1
  /\ parsedDocuments' =
       <<parseDocument(req.files[1], FieldOrOther(req.files[1].fieldname))>>
  /\ pc' = "probed"
  /\ UNCHANGED <<apiKey, openaiClient, req, visaType, aiAnalysis, oracleOutcome,
                 analysisCalls, recommendCalls, scoringPath, scoringResult,
                 response>>
  /\ UNCHANGED storeVars
  /\ UNCHANGED probeVars

\* a second call with the same path, name and kind; the function has no
\* state of its own and leaves the file where it is
ApplyParseDocumentAgain ==
  /\ pc = "probed"
  /\ Len(req.files) = 1
  /\ Len(parsedDocuments) = 1
  /\ parsedDocuments' =
       Append(parsedDocuments,
              parseDocument(req.files[1], FieldOrOther(req.files[1].fieldname)))
  /\ pc' = "reprobed"
  /\ UNCHANGED <<apiKey, openaiClient, req, visaType, aiAnalysis, oracleOutcome,
                 analysisCalls, recommendCalls, scoringPath, scoringResult,
                 response>>
  /\ UNCHANGED storeVars
  /\ UNCHANGED probeVars

ParseNext == ApplyParseDocument \/ ApplyParseDocumentAgain

ParseSpec == ParseInit /\ [][ParseNext]_vars

(***************************************************************************)
(* The handler under fair scheduling: the event loop runs every enabled    *)
(* step of the handler and the database answers every operation; nothing   *)
(* obliges the oracle to answer.                                           *)
(***************************************************************************)
FairSpec ==
  /\ Init
  /\ [][Next]_vars
  /\ WF_vars(Submit)
  /\ WF_vars(HandlerStep)
  /\ WF_vars(StoreStep)

(***************************************************************************)
(* Properties                                                              *)
(***************************************************************************)
Scored == pc = "probed" /\ scoringPath # "none"

\* C1: for every valid visa type and every input, the final score reported by
\* each scoring path is an integer between 0 and the visa type's maxScoreCap.
C1_ScoreWithinCap ==
  (Scored /\ ValidVisaType(visaType)) =>
     /\ IsInteger(scoringResult.score)
     /\ Ge(scoringResult.score, Num(0))
     /\ Ge(Num(visaType.maxScoreCap), scoringResult.score)

\* C2: in every result of every scoring path the reported category is the
\* threshold function (75 / 60 / 40) of the reported final score.
C2_CategoryMatchesScore ==
  Scored => scoringResult.scoreCategory = determineScoreCategory(scoringResult.score)

\* round(50 + min(y - m, 10) / 10 * 50)
ExperienceAtOrAboveMinimum(y, m) ==
  MathRound(Add(Num(50),
                Mul(Div(Num(IF y - m < 10 THEN y - m ELSE 10), Num(10)), Num(50))))

\* C3: in every deterministic scoring path, for years y >= minimum m the
\* experience score is round(50 + min(y - m, 10)/10 * 50): 50 at y = m and
\* 100 from y = m + 10 on.
C3_ExperienceFormula ==
  (Scored /\ scoringPath \in {"rule", "basic"}
     /\ probe.experience >= visaType.eligibilityCriteria.minExperienceYears) =>
     scoringResult.scoreBreakdown.experience =
        ExperienceAtOrAboveMinimum(probe.experience,
                                   visaType.eligibilityCriteria.minExperienceYears)

OracleCallFailed == oracleOutcome \in {"nocred", "error", "empty", "unparsable"}

Categories ==
  {"strong_candidate", "moderate_fit", "consider_alternatives", "not_recommended"}

CompleteResult(doc) ==
  /\ ~isNaN(doc.score)
  /\ Dimensions \subseteq DOMAIN doc.scoreBreakdown
  /\ \A d \in Dimensions : ~isNaN(doc.scoreBreakdown[d])
  /\ doc.scoreCategory \in Categories
  /\ Len(doc.strengths) > 0
  /\ Len(doc.improvements) > 0
  /\ Len(doc.nextSteps) > 0

DocumentTypesAccepted ==
  \A i \in DOMAIN req.files :
     FieldOrOther(req.files[i].fieldname) \in DocumentTypeEnum

\* C4: whenever the oracle call fails (no credential, service error, empty or
\* unparsable answer) and the database accepts its operations, the run ends
\* with a success response and a stored evaluation holding a score, all five
\* breakdown entries, a category and the three insight lists.
C4_FallbackCompletes ==
  (pc = "done" /\ OracleCallFailed /\ DocumentTypesAccepted /\ response.status # 500) =>
     /\ response.status = 201
     /\ Len(evaluations) = 1
     /\ CompleteResult(evaluations[1])

\* C5: a stored result built from the oracle's answer comes from a structurally
\* valid answer only: all eight criteria with their fields and every aggregate
\* field the scorer reads.
C5_OnlyValidAnswersUsed ==
  (Len(evaluations) > 0 /\ evaluations[1].reasoning = "=== O-1A VISA EVALUATION") =>
     StructurallyValid(aiAnalysis)

C7_EveryRunResponds == (pc = "validate") ~> (pc = "done")

SupportedExtensions == {".pdf", ".docx", ".doc", ".txt"}

\* C8: for every file whose extension, in any letter case, is none of pdf,
\* docx, doc, txt, parseDocument returns parseSuccess = false with an error
\* message and does not throw.
C8_UnsupportedNeverThrows ==
  (pc = "probed" /\ Len(parsedDocuments) = 1 /\ Len(req.files) = 1
     /\ extLower(req.files[1].ext) \notin SupportedExtensions) =>
     /\ ~parsedDocuments[1].threw
     /\ ~parsedDocuments[1].parseSuccess
     /\ parsedDocuments[1].error # ""

C8_Witness ==
  /\ pc = "probed"
  /\ Len(parsedDocuments) = 1
  /\ req.files[1].ext = ".Png"
  /\ ~parsedDocuments[1].parseSuccess
  /\ parsedDocuments[1].error = "Image file requires OCR for text extraction"

\* C9: a submission with valid applicant fields and an existing visa type ends
\* in success unless a database operation fails, whichever documents fail to
\* parse and whatever the oracle does.
C9_OnlyStoreFailuresFail ==
  (pc = "done" /\ req.bodyValid
     /\ (\E v \in VisaTypes : v.visaTypeId = req.visaTypeId)
     /\ response.status # 500) =>
     response.status = 201

\* C10: a run that ends with an error response has left no Evaluation record.
C10_ErrorLeavesNoRecord ==
  (pc = "done" /\ ~response.success) => Len(evaluations) = 0

\* C11: a run answered with a validation error (422) or an unknown visa type
\* (404) has parsed no document, sent no oracle request and stored no
\* Evaluation record.
C11_RejectedBeforePipeline ==
  (pc = "done" /\ response.status \in {404, 422}) =>
     /\ Len(parsedDocuments) = 0
     /\ analysisCalls = 0
     /\ recommendCalls = 0
     /\ Len(evaluations) = 0

(***************************************************************************)
(* The read handlers and the service as a whole                            *)
(***************************************************************************)
Applicants == {"a@x.org", "b@x.org"}

\* the addresses a request body may carry, as typed
EmailsTyped == Applicants \cup {"A@X.org"}

RECURSIVE Reverse(_)
Reverse(seq) == IF Len(seq) = 0 THEN <<>> ELSE Append(Reverse(Tail(seq)), Head(seq))

RECURSIVE SumScores(_)
SumScores(docs) ==
  IF Len(docs) = 0 THEN Num(0) ELSE Add(Head(docs).score, SumScores(Tail(docs)))

\* .select(...) and the fields a handler copies into its answer
Projection(doc, fields) == [f \in fields |-> doc[f]]

ProjectAll(docs, fields) == [i \in DOMAIN docs |-> Projection(docs[i], fields)]

\* identifiers a caller may send: 0 is not a well-formed ObjectId, the one
\* past the end is well-formed and names no document
EvaluationIds == 0..(Len(evaluations) + 1)

\* Evaluation.findById(id): a CastError (400), nothing (404), or the document
FindByIdStatus(id) ==
  IF id = 0 THEN 400 ELSE IF id > Len(evaluations) THEN 404 ELSE 200

ByPartner == SelectSeq(evaluations, LAMBDA d : d.partnerKey)

ByEmail(email) == SelectSeq(evaluations, LAMBDA d : d.email = email)

Serve(kind, status, data) ==
  /\ served' = [kind |-> kind, status |-> status, data |-> data]
  /\ UNCHANGED <<apiKey, openaiClient, pc>>
  /\ UNCHANGED runVars
  /\ UNCHANGED storeVars
  /\ UNCHANGED <<probe, evaluation, parked, runs, wizard>>

EvaluationView ==
  {"id", "email", "score", "scoreCategory", "scoreBreakdown", "summary",
   "strengths", "improvements", "nextSteps", "reasoning", "uploadedDocuments"}

getEvaluation ==
  \E id \in EvaluationIds :
     IF FindByIdStatus(id) = 200
     THEN Serve("getEvaluation", 200, <<Projection(evaluations[id], EvaluationView)>>)
     ELSE Serve("getEvaluation", FindByIdStatus(id), <<>>)

\* an e-mail handler that records the delivery on the document
emailResultsMarksRecord ==
  \E id \in EvaluationIds :
     /\ FindByIdStatus(id) = 200
     /\ evaluations' = [evaluations EXCEPT ![id].status = "emailed"]
     /\ served' = [kind |-> "emailResults", status |-> 200, data |-> <<id>>]
     /\ UNCHANGED <<apiKey, openaiClient, pc, userSubmissions, submissionCount>>
     /\ UNCHANGED runVars
     /\ UNCHANGED <<probe, evaluation, parked, runs, wizard>>

\* emailResultsSchema.parse, findById, the e-mail comparison, the three PDF
\* generators tried in turn, sendResultsEmail
\* the response records the id and the address the request carried
emailResults ==
  \E id \in EvaluationIds, bodyValid \in BOOLEAN, email \in EmailsTyped,
     pdfGenerated \in BOOLEAN, mailSent \in BOOLEAN :
     IF ~bodyValid THEN Serve("emailResults", 422, <<>>)
     ELSE IF FindByIdStatus(id) # 200 THEN Serve("emailResults", FindByIdStatus(id), <<>>)
     ELSE IF evaluations[id].email # email THEN Serve("emailResults", 403, <<id, email>>)
     ELSE IF ~pdfGenerated \/ ~mailSent THEN Serve("emailResults", 500, <<id, email>>)
     ELSE Serve("emailResults", 200, <<id, email>>)

downloadPDF ==
  \E id \in EvaluationIds, pdfGenerated \in BOOLEAN :
     IF FindByIdStatus(id) # 200 THEN Serve("downloadPDF", FindByIdStatus(id), <<>>)
     ELSE IF ~pdfGenerated THEN Serve("downloadPDF", 500, <<>>)
     ELSE Serve("downloadPDF", 200, <<id>>)

\* find({ email }).sort({ createdAt: -1 }).limit(20).select(...)
getUserEvaluations ==
  \E email \in Applicants :
     Serve("getUserEvaluations", 200,
           ProjectAll(Reverse(ByEmail(email)), {"id", "score", "scoreCategory"}))

getPartnerEvaluations ==
  \E partner \in BOOLEAN :
     IF ~partner THEN Serve("getPartnerEvaluations", 401, <<>>)
     ELSE Serve("getPartnerEvaluations", 200,
                ProjectAll(Reverse(ByPartner), {"id", "email", "score", "scoreCategory", "status"}))

\* countDocuments and the $avg aggregation, rounded to one decimal
getPartnerStats ==
  \E partner \in BOOLEAN :
     IF ~partner THEN Serve("getPartnerStats", 401, <<>>)
     ELSE LET total == Len(ByPartner)
              avgScore == IF total = 0 THEN NaN
                          ELSE Div(SumScores(ByPartner), Num(total))
              averageScore == IF Truthy(avgScore)
                              THEN Div(MathRound(Mul(avgScore, Num(10))), Num(10))
                              ELSE Num(0)
          IN  Serve("getPartnerStats", 200, <<total, averageScore>>)

exportEvaluations ==
  \E partner \in BOOLEAN :
     IF ~partner THEN Serve("exportEvaluations", 401, <<>>)
     ELSE Serve("exportEvaluations", 200,
                ProjectAll(Reverse(ByPartner), {"id", "email", "score", "scoreCategory"}))

ReadStep ==
  \/ getEvaluation
  \/ emailResults
  \/ downloadPDF
  \/ getUserEvaluations
  \/ getPartnerEvaluations
  \/ getPartnerStats
  \/ exportEvaluations

\* the requests the service is driven with: both applicants, one of them
\* typing the address in capitals, every scoring
\* route that needs no oracle credential, both kinds of rejection, and an
\* upload under a field name the evaluation schema does not list
ServiceRequests ==
  LET sm == Summary(<<5>>, {"bachelor", "technology"}, <<>>)
      cv == File("resume", "cv.pdf", ".pdf", "good", <<"x", " ", "x">>)
      id == File("passport", "id.pdf", ".pdf", "good", <<"x">>)
  IN  {[Request(TRUE, "o1a", sm, <<>>, TRUE) EXCEPT !.email = "A@X.org"],
       [Request(TRUE, "h1b", sm, <<cv>>, TRUE) EXCEPT !.email = "b@x.org"],
       [Request(TRUE, "legacy", sm, <<id>>, FALSE) EXCEPT !.email = "a@x.org"],
       [Request(TRUE, "unknown", sm, <<>>, FALSE) EXCEPT !.email = "b@x.org"],
       [Request(FALSE, "o1a", sm, <<>>, FALSE) EXCEPT !.email = "b@x.org"]}

SubmitToService ==
  /\ pc = "idle"
  /\ \E r \in ServiceRequests : req' = r
  /\ pc' = "validate"
  /\ UNCHANGED <<apiKey, openaiClient, visaType, parsedDocuments, aiAnalysis,
                 oracleOutcome, analysisCalls, recommendCalls, scoringPath,
                 scoringResult, response>>
  /\ UNCHANGED storeVars
  /\ UNCHANGED probeVars

\* the event loop runs the continuation of the other request in progress
Switch ==
  /\ parked' = RunLocal
  /\ pc' = parked[1]
  /\ req' = parked[2]
  /\ visaType' = parked[3]
  /\ parsedDocuments' = parked[4]
  /\ aiAnalysis' = parked[5]
  /\ oracleOutcome' = parked[6]
  /\ analysisCalls' = parked[7]
  /\ recommendCalls' = parked[8]
  /\ scoringPath' = parked[9]
  /\ scoringResult' = parked[10]
  /\ response' = parked[11]
  /\ evaluation' = parked[12]
  /\ UNCHANGED <<apiKey, openaiClient, probe, served, runs, wizard>>
  /\ UNCHANGED storeVars

\* the response has been sent; the server handles a later request
NextRequest ==
  /\ pc = "done"
  /\ runs < MaxRuns
  /\ runs' = runs + 1
  /\ pc' = "idle"
  /\ req' = NoRequest
  /\ visaType' = NoVisaType
  /\ parsedDocuments' = <<>>
  /\ aiAnalysis' = NoAnalysis
  /\ oracleOutcome' = "none"
  /\ analysisCalls' = 0
  /\ recommendCalls' = 0
  /\ scoringPath' = "none"
  /\ scoringResult' = NoResult
  /\ response' = NoResponse
  /\ evaluation' = 0
  /\ UNCHANGED <<apiKey, openaiClient, probe, served, parked, wizard>>
  /\ UNCHANGED storeVars

\* a deployment without OPENAI_API_KEY
ServiceInit ==
  /\ apiKey = FALSE
  /\ openaiClient = "null"
  /\ pc = "idle"
  /\ req = NoRequest
  /\ visaType = NoVisaType
  /\ parsedDocuments = <<>>
  /\ aiAnalysis = NoAnalysis
  /\ oracleOutcome = "none"
  /\ analysisCalls = 0
  /\ recommendCalls = 0
  /\ scoringPath = "none"
  /\ scoringResult = NoResult
  /\ evaluations = <<>>
  /\ userSubmissions = [e \in Applicants |-> <<>>]
  /\ submissionCount = 0
  /\ response = NoResponse
  /\ probe = NoProbe
  /\ ServiceIdle

ServiceNext ==
  \/ SubmitToService
  \/ RejectBody
  \/ RejectVisaType
  \/ AcceptRequest
  \/ ParseNextDocument
  \/ ScoreRuleBased
  \/ ScoreBasic
  \/ AnalysisWithoutCredential
  \/ StoreStep
  \/ ReadStep
  \/ NextRequest

ServiceSpec == ServiceInit /\ [][ServiceNext]_vars

(***************************************************************************)
(* Properties of the stored records                                        *)
(***************************************************************************)
\* C12: no step of the service - a read handler, an e-mail or PDF request, a
\* partner listing, statistics or export, or a step of a later submission -
\* changes or removes a stored Evaluation record.  (The expiry of a record
\* through its expiresAt index is the database's doing, not a step of the
\* service.)
C12_RecordsNeverChange ==
  [][\A i \in 1..Len(evaluations) :
        /\ Len(evaluations') >= i
        /\ evaluations'[i] = evaluations[i]]_vars

C12_Witness ==
  /\ Len(evaluations) = 2
  /\ runs = 1
  /\ pc = "done"
  /\ served.kind = "emailResults"
  /\ served.status = 200
  /\ served.data = <<1, "a@x.org">>

RunSucceeded == pc = "done" /\ response.success

\* C13: the only step that adds to the Evaluation collection is the create
\* step of a run that has not created a record before, and it adds exactly
\* one record under an identifier not in use; a run that answers with success
\* names the record holding its own score and category, and getEvaluation
\* with that identifier returns them.
C13_OneFreshRecordPerRun ==
  /\ [](RunSucceeded =>
          /\ response.evaluationId \in 1..Len(evaluations)
          /\ evaluations[response.evaluationId].id = response.evaluationId
          /\ evaluations[response.evaluationId].email = emailToLowerCase(req.email)
          /\ evaluations[response.evaluationId].score = scoringResult.score
          /\ evaluations[response.evaluationId].scoreCategory = scoringResult.scoreCategory
          /\ \A i \in 1..Len(evaluations) :
                i # response.evaluationId => evaluations[i].id # response.evaluationId)
  /\ []((RunSucceeded /\ served.kind = "getEvaluation" /\ served.status = 200
           /\ served.data[1].id = response.evaluationId) =>
          /\ served.data[1].score = scoringResult.score
          /\ served.data[1].scoreCategory = scoringResult.scoreCategory)
  /\ [][Len(evaluations') # Len(evaluations) =>
          /\ pc = "create"
          /\ evaluation = 0
          /\ Len(evaluations') = Len(evaluations) + 1
          /\ \A i \in 1..Len(evaluations) : evaluations[i].id # evaluations'[Len(evaluations')].id
          /\ evaluation' = evaluations'[Len(evaluations')].id]_vars

C13_Witness ==
  /\ RunSucceeded
  /\ runs = 1
  /\ response.evaluationId = 2
  /\ evaluations[1].score # evaluations[2].score
  /\ served.kind = "getEvaluation"
  /\ served.status = 200
  /\ served.data[1].id = 2

(***************************************************************************)
(* End-to-end scenario                                                     *)
(***************************************************************************)
ScenarioRun ==
  /\ ~apiKey
  /\ scoringPath # "none"
  /\ req.visaTypeId = "skilled_worker"
  /\ req.professionalSummary = Summary(<<5>>, {"bachelor", "technology"}, <<>>)
  /\ req.files = <<>>

\* C14: without an oracle credential and without documents, the applicant
\* stating 5 years, a bachelor degree and technology, submitted against the
\* visa with minimum 5 years, bachelor, [technology], b1, weights
\* 30/25/20/15/10 and cap 85, is scored 50/65/100/85/40, final score 68,
\* category moderate_fit.
C14_ScenarioResult ==
  ScenarioRun =>
     /\ scoringResult.scoreBreakdown.experience = Num(50)
     /\ scoringResult.scoreBreakdown.education = Num(65)
     /\ scoringResult.scoreBreakdown.specialization = Num(100)
     /\ scoringResult.scoreBreakdown.language = Num(85)
     /\ scoringResult.scoreBreakdown.documentQuality = Num(40)
     /\ scoringResult.score = Num(68)
     /\ scoringResult.scoreCategory = "moderate_fit"


PairRequests ==
  LET sm == Summary(<<5>>, {"bachelor", "technology"}, <<>>)
      cv == File("resume", "cv.pdf", ".pdf", "good", <<"x", " ", "x">>)
  IN  {[Request(TRUE, "o1a", sm, <<>>, TRUE) EXCEPT !.email = "a@x.org"],
       [Request(TRUE, "o1a", sm, <<cv>>, TRUE) EXCEPT !.email = "b@x.org"],
       [Request(TRUE, "h1b", sm, <<>>, TRUE) EXCEPT !.email = "b@x.org"]}

\* a request arrives while the other applicant's request may be in progress
SubmitConcurrently ==
  /\ pc = "idle"
  /\ \E r \in PairRequests :
       /\ parked[1] = "idle" \/ r.email # parked[2].email
       /\ req' = r
  /\ pc' = "validate"
  /\ UNCHANGED <<apiKey, openaiClient, visaType, parsedDocuments, aiAnalysis,
                 oracleOutcome, analysisCalls, recommendCalls, scoringPath,
                 scoringResult, response>>
  /\ UNCHANGED storeVars
  /\ UNCHANGED probeVars

\* a deployment with OPENAI_API_KEY set and no client created yet
PairInit ==
  /\ apiKey = TRUE
  /\ openaiClient = "null"
  /\ pc = "idle"
  /\ req = NoRequest
  /\ visaType = NoVisaType
  /\ parsedDocuments = <<>>
  /\ aiAnalysis = NoAnalysis
  /\ oracleOutcome = "none"
  /\ analysisCalls = 0
  /\ recommendCalls = 0
  /\ scoringPath = "none"
  /\ scoringResult = NoResult
  /\ evaluations = <<>>
  /\ userSubmissions = [e \in Applicants |-> <<>>]
  /\ submissionCount = 0
  /\ response = NoResponse
  /\ probe = NoProbe
  /\ ServiceIdle

PairNext ==
  \/ SubmitConcurrently
  \/ AcceptRequest
  \/ ParseNextDocument
  \/ ScoreBasic
  \/ RequestAnalysis
  \/ OracleStep
  \/ StoreStep
  \/ Switch

PairSpec == PairInit /\ [][PairNext]_vars


\* the result the request in hand gets from its own body, files and oracle
\* answer, whatever else the server is doing
OwnResult ==
  IF scoringPath = "oracle"
  THEN O1AResult(aiAnalysis, parsedDocuments, visaType)
  ELSE calculateBasicScore(req.professionalSummary, parsedDocuments, visaType)

\* the request in hand has stored the record of its own result
OwnRecordStored ==
  /\ evaluation \in 1..Len(evaluations)
  /\ visaType.visaTypeId = req.visaTypeId
  /\ Len(parsedDocuments) = Len(req.files)
  /\ \A i \in 1..Len(req.files) :
       parsedDocuments[i].extractedText =
         parseDocument(req.files[i], FieldOrOther(req.files[i].fieldname)).extractedText
  /\ scoringResult = OwnResult
  /\ evaluations[evaluation] = EvaluationDoc(evaluation)

BothSucceeded ==
  /\ pc = "done" /\ response.success
  /\ parked[1] = "done" /\ parked[11].success

\* every run that got as far as storing has its own result on record, and
\* two successful runs leave two records, one submission each and a counter of 2
IsolatedResults ==
  /\ (pc \in {"submission", "partner"} \/ (pc = "done" /\ response.success)) =>
        OwnRecordStored
  /\ BothSucceeded =>
        /\ Len(evaluations) = 2
        /\ evaluation # parked[12]
        /\ req.email # parked[2].email
        /\ userSubmissions[req.email] = <<evaluation>>
        /\ userSubmissions[parked[2].email] = <<parked[12]>>
        /\ submissionCount = 2

InRange0To100(score) ==
  /\ ~isNaN(score)
  /\ Ge(score, Num(0))
  /\ Ge(Num(100), score)

\* C17: every score breakdown of every scoring path has exactly one entry for
\* each of the five weighted dimensions, and each entry is a number between 0
\* and 100, whatever the applicant's levels and the visa's requirements.
C17_BreakdownComplete ==
  Scored =>
     /\ DOMAIN scoringResult.scoreBreakdown = Dimensions
     /\ \A d \in Dimensions : InRange0To100(scoringResult.scoreBreakdown[d])


\* C18: in every scoring path, the oracle-backed one included, the final
\* score is min(round(sum over the five dimensions of breakdown[d] *
\* weight[d] / 100), maxScoreCap), computed from the breakdown the result
\* reports.
C18_ScoreIsCappedWeightedSum ==
  (Scored /\ Dimensions \subseteq DOMAIN scoringResult.scoreBreakdown) =>
     scoringResult.score =
       MathMin(MathRound(BasicFinalScore(scoringResult.scoreBreakdown,
                                         visaType.scoringWeights)),
               Num(visaType.maxScoreCap))


\* C19: for every minimum m > 0 and every number of years 0 <= y < m the
\* deterministic experience score is round((y / m) * 40) and is strictly
\* below 50.
C19_ExperienceBelowMinimum ==
  (Scored /\ scoringPath \in {"rule", "basic"}
     /\ visaType.eligibilityCriteria.minExperienceYears > 0
     /\ probe.experience < visaType.eligibilityCriteria.minExperienceYears) =>
     /\ scoringResult.scoreBreakdown.experience =
          MathRound(Mul(Div(Num(probe.experience),
                            Num(visaType.eligibilityCriteria.minExperienceYears)),
                        Num(40)))
     /\ Lt(scoringResult.scoreBreakdown.experience, Num(50))


\* the education level a scoring function was given
EducationInput ==
  IF scoringPath = "oracle" THEN aiAnalysis.educationLevel ELSE probe.education

\* C20: over high_school, bachelor, master and phd with the baselines 40, 65,
\* 85 and 100, the education score of every scoring path is the applicant's
\* own baseline when the applicant's level is at or above the required one,
\* and round(applicantBaseline / requiredBaseline * 50) when it is below.
C20_EducationFormula ==
  (Scored /\ EducationInput \in DOMAIN levels
     /\ visaType.eligibilityCriteria.minEducationLevel \in DOMAIN levels) =>
     LET applicantBaseline == levels[EducationInput]
         requiredBaseline == levels[visaType.eligibilityCriteria.minEducationLevel]
     IN  scoringResult.scoreBreakdown.education =
           IF applicantBaseline >= requiredBaseline
           THEN Num(applicantBaseline)
           ELSE MathRound(Mul(Div(Num(applicantBaseline), Num(requiredBaseline)),
                              Num(50)))


\* the specialization a scoring function was given
SpecializationInput ==
  IF scoringPath = "oracle" THEN aiAnalysis.fieldOfExpertise ELSE probe.specialization

\* C21: for every applicant specialization and every non-empty allowed set,
\* in any letter case on either side, an exact case-insensitive match scores
\* 100, a partial (substring) match scores 70 to 75 and no match scores 40
\* to 50.
C21_SpecializationTiers ==
  (Scored /\ Len(visaType.eligibilityCriteria.specializations) > 0) =>
     LET allowed == Range(visaType.eligibilityCriteria.specializations)
         field == toLowerCase(SpecializationInput)
         exact == \E a \in allowed : toLowerCase(a) = field
         partial == \E a \in allowed :
                       \/ includes(toLowerCase(a), field)
                       \/ includes(field, toLowerCase(a))
                       \/ \E k \in split(field) : includes(toLowerCase(a), k)
         score == scoringResult.scoreBreakdown.specialization
     IN  IF exact THEN score = Num(100)
         ELSE IF partial THEN Ge(score, Num(70)) /\ Ge(Num(75), score)
         ELSE Ge(score, Num(40)) /\ Ge(Num(50), score)


\* C22: in the deterministic paths, for every pair of CEFR levels, a level
\* equal to the requirement scores exactly 80, a level above it scores more
\* than 80 and at most 100, and a level below it scores less than at the
\* requirement and never under the floor of 20.
C22_LanguageBands ==
  (Scored /\ scoringPath \in {"rule", "basic"}) =>
     LET userLevel == indexOf(CefrLevels, probe.languageLevel)
         requiredLevel == indexOf(CefrLevels, visaType.eligibilityCriteria.languageRequirement)
         score == scoringResult.scoreBreakdown.language
     IN  (userLevel # -1 /\ requiredLevel # -1) =>
           IF userLevel = requiredLevel THEN score = Num(80)
           ELSE IF userLevel > requiredLevel
                THEN Lt(Num(80), score) /\ Ge(Num(100), score)
                ELSE Lt(score, Num(80)) /\ Ge(score, Num(20))


\* the per-dimension functions of the scoring path that produced the result
ExperienceScoreOf(years) ==
  IF scoringPath = "rule"
  THEN calculateExperienceScore(years, visaType.eligibilityCriteria.minExperienceYears)
  ELSE calculateExperienceFromAI(Num(years), visaType.eligibilityCriteria.minExperienceYears)

EducationScoreOf(level) ==
  IF scoringPath = "rule"
  THEN calculateEducationScore(level, visaType.eligibilityCriteria.minEducationLevel)
  ELSE calculateEducationFromAI(level, visaType.eligibilityCriteria.minEducationLevel)

LanguageScoreOf(level) ==
  IF scoringPath = "rule"
  THEN calculateLanguageScore(level, visaType.eligibilityCriteria.languageRequirement)
  ELSE calculateLanguageScoreV2(level, visaType.eligibilityCriteria.languageRequirement)

\* C23: each deterministic per-dimension scoring function is monotonic in the
\* applicant's value for a fixed requirement: fewer years, a lower education
\* level or a lower CEFR level never score higher than the applicant's own.
C23_DimensionScoresMonotonic ==
  (Scored /\ scoringPath \in {"rule", "basic"}) =>
     /\ \A y1 \in 0..probe.experience :
          Ge(scoringResult.scoreBreakdown.experience, ExperienceScoreOf(y1))
     /\ \A e1 \in EducationLevels :
          levels[e1] <= levels[probe.education] =>
             Ge(scoringResult.scoreBreakdown.education, EducationScoreOf(e1))
     /\ \A l1 \in Range(CefrLevels) :
          indexOf(CefrLevels, l1) <= indexOf(CefrLevels, probe.languageLevel) =>
             Ge(scoringResult.scoreBreakdown.language, LanguageScoreOf(l1))


\* C24: in every deterministic fallback extraction the education level is
\* the highest-ranked degree keyword present in the applicant text (phd or
\* doctorate over master over bachelor over high school) and bachelor when
\* no degree keyword is present; the education score stored is the one of
\* that level.
C24_EducationKeywordRanking ==
  (pc \in {"create", "submission", "partner", "done"}
     /\ scoringPath \in {"rule", "basic"}) =>
     LET summary == req.professionalSummary
         required == visaType.eligibilityCriteria.minEducationLevel
         level ==
           IF SummaryIncludes(summary, "phd") \/ SummaryIncludes(summary, "doctorate")
           THEN "phd"
           ELSE IF SummaryIncludes(summary, "master") THEN "master"
           ELSE IF SummaryIncludes(summary, "bachelor") THEN "bachelor"
           ELSE IF SummaryIncludes(summary, "high school") THEN "high_school"
           ELSE "bachelor"
     IN  scoringResult.scoreBreakdown.education =
           IF scoringPath = "rule"
           THEN calculateEducationScore(level, required)
           ELSE calculateEducationFromAI(level, required)


\* C25: for every ParsedDocument returned by parseDocument, wordCount is the
\* number of non-empty whitespace-separated tokens of its extractedText, and
\* wordCount is 0 whenever parseSuccess is false.
C25_WordCountOfExtractedText ==
  (pc = "probed" /\ Len(parsedDocuments) = 1) =>
     /\ parsedDocuments[1].wordCount = WordCount(parsedDocuments[1].extractedText)
     /\ ~parsedDocuments[1].parseSuccess => parsedDocuments[1].wordCount = 0


\* C26: in every result of every scoring path the next-steps list is
\* non-empty and ends with the pointer to the visa type's official link; in
\* the rule-based path the elements before it are the three steps of the tier
\* chosen by the final score (>= 75, >= 60, otherwise).
C26_NextStepsEndWithLink ==
  Scored =>
     LET steps == scoringResult.nextSteps
         n == Len(steps)
     IN  /\ n > 0
         /\ steps[n][1] = "Visit official website"
         /\ steps[n][2] \in {visaType.officialLink, "Contact immigration authority"}
         /\ scoringPath = "rule" =>
              /\ n = 4
              /\ steps[1][1] =
                   IF Ge(scoringResult.score, Num(75))
                   THEN "Prepare comprehensive application"
                   ELSE IF Ge(scoringResult.score, Num(60))
                   THEN "Address the improvement areas mentioned above"
                   ELSE "Focus on building qualifications in key areas"
              /\ steps[3][1] =
                   IF Ge(scoringResult.score, Num(75))
                   THEN "Consider consulting with an immigration attorney"
                   ELSE IF Ge(scoringResult.score, Num(60))
                   THEN "Consider alternative visa options"
                   ELSE "Consider professional development and certifications"


\* the entries of a list of insights that speak of dimension d
About(items, d) == {i \in DOMAIN items : items[i][2] = d}

\* C27: for every breakdown generateInsights emits at most one strength and
\* at most one improvement per dimension, at most five of each, and no
\* dimension contributes both a strength and an improvement.
C27_InsightsPerDimension ==
  (Scored /\ scoringPath = "rule") =>
     /\ Len(scoringResult.strengths) <= 5
     /\ Len(scoringResult.improvements) <= 5
     /\ \A i \in DOMAIN scoringResult.strengths :
          scoringResult.strengths[i][2] \in Dimensions
     /\ \A i \in DOMAIN scoringResult.improvements :
          scoringResult.improvements[i][2] \in Dimensions
     /\ \A d \in Dimensions :
          /\ Cardinality(About(scoringResult.strengths, d)) <= 1
          /\ Cardinality(About(scoringResult.improvements, d)) <= 1
          /\ About(scoringResult.strengths, d) = {}
               \/ About(scoringResult.improvements, d) = {}

C27_Witness ==
  /\ Scored
  /\ scoringPath = "rule"
  /\ Len(scoringResult.strengths) = 3
  /\ Len(scoringResult.improvements) = 2
  /\ About(scoringResult.strengths, "experience") # {}
  /\ About(scoringResult.improvements, "language") # {}


(***************************************************************************)
(* Two requests of the same applicant in progress at once.  The unique     *)
(* index on UserSubmission.email keeps one record per address, which is    *)
(* what userSubmissions, a function of the address, holds; an upsert that  *)
(* loses the race for a new address is one of the ways the update fails.   *)
(***************************************************************************)
TwinRequests ==
  LET sm == Summary(<<5>>, {"bachelor", "technology"}, <<>>)
      cv == File("resume", "cv.pdf", ".pdf", "good", <<"x", " ", "x">>)
      id == File("passport", "id.pdf", ".pdf", "good", <<"x">>)
  IN  {[Request(TRUE, "h1b", sm, <<cv>>, TRUE) EXCEPT !.email = "a@x.org"],
       [Request(TRUE, "h1b", sm, <<id>>, FALSE) EXCEPT !.email = "a@x.org"],
       [Request(TRUE, "skilled_worker", sm, <<>>, TRUE) EXCEPT !.email = "a@x.org"]}

SubmitTwin ==
  /\ pc = "idle"
  /\ \E r \in TwinRequests : req' = r
  /\ pc' = "validate"
  /\ UNCHANGED <<apiKey, openaiClient, visaType, parsedDocuments, aiAnalysis,
                 oracleOutcome, analysisCalls, recommendCalls, scoringPath,
                 scoringResult, response>>
  /\ UNCHANGED storeVars
  /\ UNCHANGED probeVars

TwinNext ==
  \/ SubmitTwin
  \/ AcceptRequest
  \/ ParseNextDocument
  \/ ScoreBasic
  \/ StoreStep
  \/ Switch

TwinSpec == PairInit /\ [][TwinNext]_vars

AllRunsFinished ==
  /\ pc = "done"
  /\ parked[1] = "done"

\* C28: once all runs have finished, runs for the same email included, there
\* is one UserSubmission record per email and the id of every Evaluation
\* record of that email appears exactly once in its evaluationIds.
C28_SubmissionsListEveryEvaluation ==
  AllRunsFinished =>
     \A i \in 1..Len(evaluations) :
        LET ids == userSubmissions[evaluations[i].email]
        IN  Cardinality({k \in DOMAIN ids : ids[k] = evaluations[i].id}) = 1


\* the last email-results request was for the record of the run in hand
EmailResultsForThisRun ==
  /\ RunSucceeded
  /\ served.kind = "emailResults"
  /\ Len(served.data) = 2
  /\ served.data[1] = evaluation

\* C29: for an evaluation created by submit evaluation with the email string
\* e, an email-results request for it carrying the same string e is not
\* rejected with 403, and a request carrying a different address is never
\* answered with 200.
C29_SameEmailStringAccepted ==
  EmailResultsForThisRun =>
     /\ served.data[2] = req.email => served.status # 403
     /\ emailToLowerCase(served.data[2]) # emailToLowerCase(req.email) =>
          served.status = 403


(***************************************************************************)
(* The evaluation wizard: EvaluationProvider state, the step mounted by    *)
(* WizardContainer, and the useCountries hook of that step                 *)
(***************************************************************************)
RequiredDocument(id, required) == [id |-> id, required |-> required]

WizardVisa(id, docs) == [id |-> id, requiredDocuments |-> docs]

\* what api.getCountries resolves to: mapBackendCountries of the seeded catalogue
CountryList ==
  << [code |-> "us",
      visaTypes |->
        << WizardVisa("o1a", << RequiredDocument("resume", TRUE),
                                RequiredDocument("cover_letter", FALSE) >>) >>],
     [code |-> "de",
      visaTypes |->
        << WizardVisa("blue_card", << RequiredDocument("passport", TRUE) >>),
           WizardVisa("job_seeker", << RequiredDocument("resume", TRUE),
                                       RequiredDocument("passport", TRUE) >>) >>] >>

NoCountry == [code |-> "", visaTypes |-> <<>>]

NoWizardVisa == WizardVisa("", <<>>)

\* countries.find(c => c.code === code), undefined as NoCountry
selectedCountry(countries, code) ==
  LET found == SelectSeq(countries, LAMBDA c : c.code = code)
  IN IF found = <<>> THEN NoCountry ELSE found[1]

\* selectedCountry?.visaTypes.find(v => v.id === id), undefined as NoWizardVisa
selectedVisa(countries, code, id) ==
  LET found == SelectSeq(selectedCountry(countries, code).visaTypes,
                         LAMBDA v : v.id = id)
  IN IF found = <<>> THEN NoWizardVisa ELSE found[1]

\* selectedVisa?.requiredDocuments || []
requiredDocs(w) ==
  selectedVisa(w.countries, w.targetCountry, w.visaType).requiredDocuments

isDocumentUploaded(w, documentId) ==
  \E i \in 1..Len(w.uploadedDocuments) :
     w.uploadedDocuments[i].documentId = documentId

\* requiredDocs.filter(doc => doc.required).every(doc => isDocumentUploaded(doc.id))
allRequiredDocsUploaded(w) ==
  \A i \in 1..Len(requiredDocs(w)) :
     requiredDocs(w)[i].required => isDocumentUploaded(w, requiredDocs(w)[i].id)

\* setCurrentStep and the render that follows: the component of the new step
\* is mounted, its useCountries starts with [] and loading, and the second
\* step takes its selection from the provider
setCurrentStep(w, step) ==
  [w EXCEPT !.currentStep = step,
            !.countries = <<>>,
            !.loading = step \in {2, 3, 4},
            !.selectedCountryCode = IF step = 2 THEN w.targetCountry ELSE "",
            !.selectedVisaId = IF step = 2 THEN w.visaType ELSE ""]

handleNext(w) == setCurrentStep(w, w.currentStep + 1)

handleBack(w) == setCurrentStep(w, w.currentStep - 1)

handleEdit(w, step) == setCurrentStep(w, step)

WizardStep(w) ==
  /\ wizard' = w
  /\ UNCHANGED <<apiKey, openaiClient, pc>>
  /\ UNCHANGED runVars
  /\ UNCHANGED storeVars
  /\ UNCHANGED <<probe, evaluation, served, parked, runs>>

\* useCountries: the promise of api.getCountries resolves
fetchCountriesResolves ==
  /\ wizard.loading
  /\ WizardStep([wizard EXCEPT !.countries = CountryList, !.loading = FALSE])

\* useCountries: the promise rejects; setError, countries stay []
fetchCountriesFails ==
  /\ wizard.loading
  /\ WizardStep([wizard EXCEPT !.loading = FALSE])

\* Step1Personal onSubmit with a form the resolver accepts
Step1Submit ==
  /\ wizard.currentStep = 1
  /\ WizardStep(handleNext(wizard))

\* Step2CountryVisa: a country card is clicked
Step2SelectCountry ==
  /\ wizard.currentStep = 2
  /\ ~wizard.loading
  /\ \E i \in 1..Len(wizard.countries) :
        WizardStep([wizard EXCEPT
                      !.selectedCountryCode = wizard.countries[i].code,
                      !.selectedVisaId = ""])

\* Step2CountryVisa: a visa card of the selected country is clicked
Step2SelectVisa ==
  /\ wizard.currentStep = 2
  /\ ~wizard.loading
  /\ LET visas == selectedCountry(wizard.countries,
                                  wizard.selectedCountryCode).visaTypes
     IN \E i \in 1..Len(visas) :
           WizardStep([wizard EXCEPT !.selectedVisaId = visas[i].id])

\* Step2CountryVisa handleNext: selectCountryAndVisa, then onNext
Step2Next ==
  /\ wizard.currentStep = 2
  /\ ~wizard.loading
  /\ wizard.selectedCountryCode # ""
  /\ wizard.selectedVisaId # ""
  /\ WizardStep(handleNext([wizard EXCEPT
                              !.targetCountry = wizard.selectedCountryCode,
                              !.visaType = wizard.selectedVisaId]))

Step2Back ==
  /\ wizard.currentStep = 2
  /\ ~wizard.loading
  /\ WizardStep(handleBack(wizard))

\* Math.random().toString(36): an id no uploaded document has
NewDocumentId(w) ==
  CHOOSE n \in 1..(Len(w.uploadedDocuments) + 1) :
     \A i \in 1..Len(w.uploadedDocuments) : w.uploadedDocuments[i].id # n

\* DocumentUploadCard onDrop with a file of accepted size and type; the
\* dropzone of a card is disabled while the card holds a file
addDocument ==
  /\ wizard.currentStep = 3
  /\ \E i \in 1..Len(requiredDocs(wizard)) :
        /\ ~isDocumentUploaded(wizard, requiredDocs(wizard)[i].id)
        /\ WizardStep([wizard EXCEPT !.uploadedDocuments =
                         Append(@, [id |-> NewDocumentId(wizard),
                                    documentId |-> requiredDocs(wizard)[i].id])])

\* getUploadedDoc(doc.id): the first uploaded document of the card
getUploadedDoc(w, documentId) ==
  SelectSeq(w.uploadedDocuments, LAMBDA d : d.documentId = documentId)[1]

\* onRemove of a card that holds a file: removeDocument(uploaded.id)
removeDocument ==
  /\ wizard.currentStep = 3
  /\ \E i \in 1..Len(requiredDocs(wizard)) :
        /\ isDocumentUploaded(wizard, requiredDocs(wizard)[i].id)
        /\ LET uploaded == getUploadedDoc(wizard, requiredDocs(wizard)[i].id)
           IN WizardStep([wizard EXCEPT !.uploadedDocuments =
                            SelectSeq(@, LAMBDA d : d.id # uploaded.id)])

\* Step3Documents: Next is disabled unless allRequiredDocsUploaded
Step3Next ==
  /\ wizard.currentStep = 3
  /\ allRequiredDocsUploaded(wizard)
  /\ WizardStep(handleNext(wizard))

Step3Back ==
  /\ wizard.currentStep = 3
  /\ WizardStep(handleBack(wizard))

Step4Back ==
  /\ wizard.currentStep = 4
  /\ WizardStep(handleBack(wizard))

\* Step4Review: the Edit buttons of the three sections
Step4Edit ==
  /\ wizard.currentStep = 4
  /\ \E step \in {1, 2, 3} : WizardStep(handleEdit(wizard, step))

WizardNext ==
  \/ fetchCountriesResolves
  \/ fetchCountriesFails
  \/ Step1Submit
  \/ Step2SelectCountry
  \/ Step2SelectVisa
  \/ Step2Next
  \/ Step2Back
  \/ addDocument
  \/ removeDocument
  \/ Step3Next
  \/ Step3Back
  \/ Step4Back
  \/ Step4Edit

WizardSpec == Init /\ [][WizardNext]_vars

\* the required documents of the visa type the provider holds, by the catalogue
RequiredOfSelectedVisa(w) ==
  selectedVisa(CountryList, w.targetCountry, w.visaType).requiredDocuments

\* C30: under every interleaving of the clicks with the loading of the
\* country list, the wizard passes from the documents step to the review
\* step only when every required document of the selected visa type has an
\* uploaded file, and currentStep stays within 1..4
C30_ReviewEnteredOnlyWithRequiredDocuments ==
  /\ [][(wizard.currentStep = 3 /\ wizard'.currentStep = 4) =>
          \A i \in 1..Len(RequiredOfSelectedVisa(wizard)) :
             RequiredOfSelectedVisa(wizard)[i].required =>
               isDocumentUploaded(wizard, RequiredOfSelectedVisa(wizard)[i].id)]_vars
  /\ [](wizard.currentStep \in 1..4)

====
